---- MODULE Spec2Model ----
(***************************************************************************)
(* Model of the templating core of shed: the brackets package (lexing,     *)
(* normalisation, parameter/secret extraction, hydration), the command and *)
(* secret store, and the run pipeline.                                     *)
(*                                                                         *)
(* Strings are sequences of one-character strings, so that indexing,       *)
(* slicing and byte length behave as in the Go code.                       *)
(***************************************************************************)
EXTENDS Integers, Sequences, FiniteSets, TLC

(***************************************************************************)
(* Bounds of the model.                                                    *)
(***************************************************************************)
MaxCalls == 3
MaxPieces == 3
MaxSpans == 3
MaxParams == 2
MaxUpserts == 4
NumProcs == 2
MaxShellOps == 3
MaxScanTokenSize == 3
PipeCapacity == 2
MaxEdits == 2

(***************************************************************************)
(* Program constants.                                                      *)
(***************************************************************************)
maxParts == 2
characterLimit == 40
nameMaxLength == 32

\* The bytes of the constant symbols.  The quotes, the backquote and the
\* backslash of the Go constant are left out: no string of the model
\* contains them.
symbolSet ==
  {"!", "@", "#", "$", "%", "^", "&", "*", "(", ")", "-", "+", "=", "[", "]",
   "{", "}", ";", ":", ",", ".", "<", ">", "?", "/", "|", "~"}

bang == "!"

(***************************************************************************)
(* Bytes.  Ascii lists the printable characters in code order (the quotes, *)
(* the backquote and the backslash hold their places as two-byte names     *)
(* that no string of the model contains); Ord is the byte value that the   *)
(* string comparison of Go uses.                                           *)
(***************************************************************************)
Ascii ==
  <<" ", "!", "dq", "#", "$", "%", "&", "sq", "(", ")", "*", "+", ",", "-",
    ".", "/", "0", "1", "2", "3", "4", "5", "6", "7", "8", "9", ":", ";",
    "<", "=", ">", "?", "@", "A", "B", "C", "D", "E", "F", "G", "H", "I",
    "J", "K", "L", "M", "N", "O", "P", "Q", "R", "S", "T", "U", "V", "W",
    "X", "Y", "Z", "[", "bs", "]", "^", "_", "bq", "a", "b", "c", "d", "e",
    "f", "g", "h", "i", "j", "k", "l", "m", "n", "o", "p", "q", "r", "s",
    "t", "u", "v", "w", "x", "y", "z", "{", "|", "}", "~">>

Ord(c) == 31 + (CHOOSE i \in 1..Len(Ascii) : Ascii[i] = c)

Lower ==
  {"a", "b", "c", "d", "e", "f", "g", "h", "i", "j", "k", "l", "m", "n", "o",
   "p", "q", "r", "s", "t", "u", "v", "w", "x", "y", "z"}
Upper ==
  {"A", "B", "C", "D", "E", "F", "G", "H", "I", "J", "K", "L", "M", "N", "O",
   "P", "Q", "R", "S", "T", "U", "V", "W", "X", "Y", "Z"}
Digits == {"0", "1", "2", "3", "4", "5", "6", "7", "8", "9"}

IsLower(c) == c \in Lower
IsUpper(c) == c \in Upper
IsDigit(c) == c \in Digits
IsSpace(c) == c = " "

Max(a, b) == IF a >= b THEN a ELSE b

\* s[i:j] of Go for 1-based inclusive bounds; empty when hi < lo.
Slice(s, lo, hi) == IF hi < lo THEN <<>> ELSE SubSeq(s, lo, hi)

\* The < of Go on strings: bytewise lexicographic.
RECURSIVE StrLess(_, _)
StrLess(a, b) ==
  IF b = <<>> THEN FALSE
  ELSE IF a = <<>> THEN TRUE
  ELSE IF Head(a) = Head(b) THEN StrLess(Tail(a), Tail(b))
  ELSE Ord(Head(a)) < Ord(Head(b))

RECURSIVE TrimLeft(_)
TrimLeft(s) ==
  IF s # <<>> /\ IsSpace(Head(s)) THEN TrimLeft(Tail(s)) ELSE s

RECURSIVE TrimRight(_)
TrimRight(s) ==
  IF s # <<>> /\ IsSpace(s[Len(s)]) THEN TrimRight(Slice(s, 1, Len(s) - 1))
  ELSE s

\* strings.TrimSpace
TrimSpace(s) == TrimRight(TrimLeft(s))

\* strings.Contains(s, c) for a one-byte needle
Contains(s, c) == \E i \in 1..Len(s) : s[i] = c

\* Position of the first "|" of s, 0 when there is none.
PipeIndex(s) ==
  IF Contains(s, "|")
  THEN CHOOSE i \in 1..Len(s) : s[i] = "|" /\ \A k \in 1..(i - 1) : s[k] # "|"
  ELSE 0

\* strings.SplitN(s, "|", maxParts)
SplitN(s) ==
  LET p == PipeIndex(s)
  IN IF p = 0 THEN <<s>>
     ELSE <<Slice(s, 1, p - 1), Slice(s, p + 1, Len(s))>>

parseName(s) == TrimSpace(SplitN(s)[1])

cleanString(s) ==
  LET join(parts) ==
        IF Len(parts) = 1 THEN TrimSpace(parts[1])
        ELSE TrimSpace(parts[1]) \o <<"|">> \o TrimSpace(parts[2])
  IN join(SplitN(s))

\* spaceRegex.ReplaceAllString(s, " "): every run of whitespace becomes one
\* space.
CollapseSpaces(s) ==
  LET kept == {x \in 1..Len(s) : ~(IsSpace(s[x]) /\ x > 1 /\ IsSpace(s[x - 1]))}
      nth(n) == CHOOSE x \in kept : Cardinality({y \in kept : y <= x}) = n
  IN [n \in 1..Cardinality(kept) |-> s[nth(n)]]

\* The inner "find closing }}" loops: the first index k with from <= k,
\* k+1 <= Len(s) and s[k..k+1] = "}}", or 0.
FindClose(s, from) ==
  LET hits == {k \in from..(Len(s) - 1) : s[k] = "}" /\ s[k + 1] = "}"}
  IN IF hits = {} THEN 0
     ELSE CHOOSE k \in hits : \A m \in hits : k <= m

IsOpenAt(s, i) == i + 1 <= Len(s) /\ s[i] = "{" /\ s[i + 1] = "{"

\* Where a scan that steps one byte at a time from index from next meets
\* "{{"; Len(s) + 1 when it meets none.
NextOpen(s, from) ==
  LET hits == {k \in from..(Len(s) - 1) : IsOpenAt(s, k)}
  IN IF hits = {} THEN Len(s) + 1
     ELSE CHOOSE k \in hits : \A m \in hits : k <= m

(***************************************************************************)
(* ParseCommand                                                            *)
(***************************************************************************)
\* ParseCommandLoop that, after a "{{" that is never closed, resumes the scan
\* one byte after the brackets.
RECURSIVE ParseCommandLoop_ResumesAfterOneByte(_, _, _, _)
ParseCommandLoop_ResumesAfterOneByte(s, i, result, outside) ==
  IF i > Len(s) THEN result \o CollapseSpaces(outside)
  ELSE IF IsOpenAt(s, i)
  THEN LET flushed == result \o CollapseSpaces(outside) \o <<"{", "{">>
           start == i + 2
           k == FindClose(s, start)
       IN IF k = 0
          THEN ParseCommandLoop_ResumesAfterOneByte(s, start + 1, flushed,
                                                    <<>>)
          ELSE ParseCommandLoop_ResumesAfterOneByte(s, k + 2,
                 flushed \o cleanString(Slice(s, start, k - 1)) \o <<"}", "}">>,
                 <<>>)
  ELSE ParseCommandLoop_ResumesAfterOneByte(s, NextOpen(s, i + 1), result,
         outside \o Slice(s, i, NextOpen(s, i + 1) - 1))

RECURSIVE ParseCommandLoop(_, _, _, _)
ParseCommandLoop(s, i, result, outside) ==
  IF i > Len(s) THEN result \o CollapseSpaces(outside)
  ELSE IF IsOpenAt(s, i)
  THEN LET flushed == result \o CollapseSpaces(outside) \o <<"{", "{">>
           start == i + 2
           k == FindClose(s, start)
       IN IF k = 0
          THEN \* no closing "}}": the scan stops on the last byte
               ParseCommandLoop(s, Max(start, Len(s)), flushed, <<>>)
          ELSE ParseCommandLoop(s, k + 2,
                 flushed \o cleanString(Slice(s, start, k - 1)) \o <<"}", "}">>,
                 <<>>)
  ELSE \* the bytes up to the next "{{" go to the text outside the brackets
       ParseCommandLoop(s, NextOpen(s, i + 1), result,
                        outside \o Slice(s, i, NextOpen(s, i + 1) - 1))

ParseCommand(input) == ParseCommandLoop(TrimSpace(input), 1, <<>>, <<>>)

(***************************************************************************)
(* parseBrackets: the cleaned inner contents of the spans with a non-empty *)
(* name, one per name, the longest content of a name being retained.       *)
(***************************************************************************)
IndexOfName(results, name) ==
  LET hits == {x \in 1..Len(results) : parseName(results[x]) = name}
  IN IF hits = {} THEN 0 ELSE CHOOSE x \in hits : TRUE

\* parseBracketsLoop that also replaces the content kept for a name by a
\* later content of the same length.
RECURSIVE parseBracketsLoop_LastWinsTies(_, _, _)
parseBracketsLoop_LastWinsTies(s, i, results) ==
  IF i > Len(s) - 1 THEN results
  ELSE IF IsOpenAt(s, i)
  THEN LET start == i + 2
           k == FindClose(s, start)
       IN IF k = 0 THEN results
          ELSE LET content == cleanString(Slice(s, start, k - 1))
                   name == parseName(content)
                   idx == IndexOfName(results, name)
                   next ==
                     IF Len(name) = 0 THEN results
                     ELSE IF idx # 0
                          THEN IF Len(content) >= Len(results[idx])
                               THEN [results EXCEPT ![idx] = content]
                               ELSE results
                          ELSE Append(results, content)
               IN parseBracketsLoop_LastWinsTies(s, k + 2, next)
  ELSE parseBracketsLoop_LastWinsTies(s, NextOpen(s, i + 1), results)

RECURSIVE parseBracketsLoop(_, _, _)
parseBracketsLoop(s, i, results) ==
  IF i > Len(s) - 1 THEN results
  ELSE IF IsOpenAt(s, i)
  THEN LET start == i + 2
           k == FindClose(s, start)
       IN IF k = 0 THEN results
          ELSE LET content == cleanString(Slice(s, start, k - 1))
                   name == parseName(content)
                   idx == IndexOfName(results, name)
                   next ==
                     IF Len(name) = 0 THEN results
                     ELSE IF idx # 0
                          THEN IF Len(content) > Len(results[idx])
                               THEN [results EXCEPT ![idx] = content]
                               ELSE results
                          ELSE Append(results, content)
               IN parseBracketsLoop(s, k + 2, next)
  ELSE parseBracketsLoop(s, NextOpen(s, i + 1), results)

parseBrackets(s) == parseBracketsLoop(s, 1, <<>>)

(***************************************************************************)
(* Parameters and secrets: sequences of [Name, Description].  An operation *)
(* that can fail returns [err, val]; err = "nil" means success.            *)
(***************************************************************************)
Ok(v) == [err |-> "nil", val |-> v]
Fail(kind) == [err |-> kind, val |-> <<>>]

ToParameter(content) ==
  LET make(parts) ==
        IF Len(parts) = 1 THEN [Name |-> parts[1], Description |-> <<>>]
        ELSE [Name |-> parts[1], Description |-> parts[2]]
  IN make(SplitN(content))

IsSecretName(p) == p.Name[1] = bang

RECURSIVE Filter(_, _)
Filter(pp, keepSecrets) ==
  IF pp = <<>> THEN <<>>
  ELSE IF IsSecretName(Head(pp)) = keepSecrets
       THEN <<Head(pp)>> \o Filter(Tail(pp), keepSecrets)
       ELSE Filter(Tail(pp), keepSecrets)

\* parseParamOrSecret with the predicate of ParseSecrets (keepSecrets) or
\* of ParseParameters (~keepSecrets).
parseParamOrSecret(input, keepSecrets) ==
  LET ss == parseBrackets(input)
      pp == [x \in 1..Len(ss) |-> ToParameter(ss[x])]
  IN Filter(pp, keepSecrets)

\* The error of one name, "nil" when it passes every test.
NameError(name) ==
  IF Len(name) = 0 THEN "NameEmpty"
  ELSE IF IsDigit(name[1]) THEN "StartsWithInvalidChar"
  ELSE IF \E x \in 1..Len(name) : name[x] \in symbolSet
       THEN "ContainsInvalidSymbols"
  ELSE IF Len(name) > characterLimit THEN "TooLong"
  ELSE IF Contains(name, " ") THEN "ContainsSpaces"
  ELSE "nil"

checkForInvalidParameters(pp) ==
  LET bad == {x \in 1..Len(pp) : NameError(pp[x].Name) # "nil"}
  IN IF bad = {} THEN Ok(pp)
     ELSE Fail(NameError(pp[CHOOSE x \in bad : \A y \in bad : x <= y].Name))

ParseParameters(input) ==
  checkForInvalidParameters(parseParamOrSecret(input, FALSE))

StripBang(pp) ==
  [x \in 1..Len(pp) |->
     [Name |-> Tail(pp[x].Name), Description |-> pp[x].Description]]

ParseSecrets(input) ==
  checkForInvalidParameters(StripBang(parseParamOrSecret(input, TRUE)))

\* Parse: [err, Command, Parameters, Secrets]
Parse(input) ==
  LET result(p, sec) ==
        IF p.err # "nil"
        THEN [err |-> p.err, Command |-> <<>>, Parameters |-> <<>>,
              Secrets |-> <<>>]
        ELSE IF sec.err # "nil"
        THEN [err |-> sec.err, Command |-> <<>>, Parameters |-> <<>>,
              Secrets |-> <<>>]
        ELSE [err |-> "nil", Command |-> ParseCommand(input),
              Parameters |-> p.val, Secrets |-> sec.val]
  IN result(ParseParameters(input), ParseSecrets(input))

Names(pp) == [x \in 1..Len(pp) |-> pp[x].Name]
NameSet(pp) == {pp[x].Name : x \in 1..Len(pp)}

\* Parameters.ToMap: a later entry of a name overwrites an earlier one.
ToMap(pp) ==
  [n \in NameSet(pp) |->
     pp[CHOOSE x \in 1..Len(pp) :
          pp[x].Name = n /\ \A y \in (x + 1)..Len(pp) : pp[y].Name # n]
       .Description]

\* sort.Slice by Name.  The lists sorted by the program have distinct names,
\* for which the result does not depend on the sorting algorithm.
RECURSIVE SortByName(_)
SortByName(pp) ==
  IF pp = <<>> THEN <<>>
  ELSE LET m == CHOOSE x \in 1..Len(pp) :
                  \A y \in 1..Len(pp) :
                    \/ StrLess(pp[x].Name, pp[y].Name)
                    \/ (~StrLess(pp[y].Name, pp[x].Name) /\ x <= y)
       IN <<pp[m]>> \o
          SortByName([y \in 1..(Len(pp) - 1) |->
                        IF y < m THEN pp[y] ELSE pp[y + 1]])

\* Replace that appends without searching for the name.
Replace_AlwaysAppends(pp, name, description) ==
  SortByName(Append(pp, [Name |-> name, Description |-> description]))

\* Parameters.Replace
Replace(pp, name, description) ==
  IF \E x \in 1..Len(pp) : pp[x].Name = name
  THEN LET i == CHOOSE x \in 1..Len(pp) :
                  pp[x].Name = name /\ \A y \in 1..(x - 1) : pp[y].Name # name
       IN [pp EXCEPT ![i].Description = description]
  ELSE SortByName(Append(pp, [Name |-> name, Description |-> description]))

\* MergeOne that takes the updated description on equal lengths.
MergeOne_TiesTakeUpdated(pp, name, beforeMap, updatedMap) ==
  LET priorityDesc == ToMap(pp)[name]
      existedBefore == name \in DOMAIN beforeMap
      existsInUpdated == name \in DOMAIN updatedMap
      beforeDesc == IF existedBefore THEN beforeMap[name] ELSE <<>>
      updatedDesc == IF existsInUpdated THEN updatedMap[name] ELSE <<>>
      priorityChanged == priorityDesc # beforeDesc
      updatedChanged == existsInUpdated /\ updatedDesc # beforeDesc
  IN IF ~existedBefore
     THEN IF existsInUpdated /\ Len(updatedDesc) > Len(priorityDesc)
          THEN Replace(pp, name, updatedDesc)
          ELSE pp
     ELSE IF priorityChanged /\ updatedChanged
     THEN IF Len(updatedDesc) >= Len(priorityDesc)
          THEN Replace(pp, name, updatedDesc)
          ELSE pp
     ELSE IF updatedChanged THEN Replace(pp, name, updatedDesc)
     ELSE pp

\* MergeOne that puts the description of before back where only the
\* priority side changed it.
MergeOne_CarriesOverStored(pp, name, beforeMap, updatedMap) ==
  LET priorityDesc == ToMap(pp)[name]
      existedBefore == name \in DOMAIN beforeMap
      existsInUpdated == name \in DOMAIN updatedMap
      beforeDesc == IF existedBefore THEN beforeMap[name] ELSE <<>>
      updatedDesc == IF existsInUpdated THEN updatedMap[name] ELSE <<>>
      priorityChanged == priorityDesc # beforeDesc
      updatedChanged == existsInUpdated /\ updatedDesc # beforeDesc
  IN IF ~existedBefore
     THEN IF existsInUpdated /\ Len(updatedDesc) > Len(priorityDesc)
          THEN Replace(pp, name, updatedDesc)
          ELSE pp
     ELSE IF priorityChanged /\ updatedChanged
     THEN IF Len(updatedDesc) > Len(priorityDesc)
          THEN Replace(pp, name, updatedDesc)
          ELSE pp
     ELSE IF updatedChanged THEN Replace(pp, name, updatedDesc)
     ELSE IF priorityChanged THEN Replace(pp, name, beforeDesc)
     ELSE pp

\* One iteration of the loop of ThreeWayMerge, for the name at position x of
\* the names taken before the loop.
MergeOne(pp, name, beforeMap, updatedMap) ==
  LET priorityDesc == ToMap(pp)[name]
      existedBefore == name \in DOMAIN beforeMap
      existsInUpdated == name \in DOMAIN updatedMap
      beforeDesc == IF existedBefore THEN beforeMap[name] ELSE <<>>
      updatedDesc == IF existsInUpdated THEN updatedMap[name] ELSE <<>>
      priorityChanged == priorityDesc # beforeDesc
      updatedChanged == existsInUpdated /\ updatedDesc # beforeDesc
  IN IF ~existedBefore
     THEN IF existsInUpdated /\ Len(updatedDesc) > Len(priorityDesc)
          THEN Replace(pp, name, updatedDesc)
          ELSE pp
     ELSE IF priorityChanged /\ updatedChanged
     THEN IF Len(updatedDesc) > Len(priorityDesc)
          THEN Replace(pp, name, updatedDesc)
          ELSE pp
     ELSE IF updatedChanged THEN Replace(pp, name, updatedDesc)
     ELSE pp

RECURSIVE MergeLoop(_, _, _, _)
MergeLoop(pp, names, beforeMap, updatedMap) ==
  IF names = <<>> THEN pp
  ELSE MergeLoop(MergeOne(pp, Head(names), beforeMap, updatedMap),
                 Tail(names), beforeMap, updatedMap)

ThreeWayMerge(pp, before, updated) ==
  MergeLoop(pp, Names(pp), ToMap(before), ToMap(updated))

(***************************************************************************)
(* fmt.Sprintf(format, args...) for string operands, as HydrateStringSafe  *)
(* calls it.  Of the format syntax the model covers what the strings of    *)
(* the model can spell: flags, a decimal width, the verbs and "%%".  The   *)
(* strings of the model contain no "[", "*", "." and none of the verbs     *)
(* x, X, q, w, and of the flag bytes only the space, which does not change *)
(* how a string operand prints.                                            *)
(***************************************************************************)
FlagBytes == {"#", "0", "+", "-", " "}

percentBangString == <<"%", "!">>
missingString == <<"(", "M", "I", "S", "S", "I", "N", "G", ")">>
noVerbString == <<"%", "!", "(", "N", "O", "V", "E", "R", "B", ")">>
extraString == <<"%", "!", "(", "E", "X", "T", "R", "A", " ">>
stringEquals == <<"s", "t", "r", "i", "n", "g", "=">>
commaSpaceString == <<",", " ">>

RECURSIVE Spaces(_)
Spaces(n) == IF n <= 0 THEN <<>> ELSE <<" ">> \o Spaces(n - 1)

\* fmt.padString: left padding with spaces up to the width.
padString(v, wid) == Spaces(wid - Len(v)) \o v

\* pp.badVerb for a string operand.
badVerb(verb, v, wid) ==
  percentBangString \o <<verb>> \o <<"(">> \o stringEquals \o
  padString(v, wid) \o <<")">>

\* pp.printArg for a string operand: fmtString.
printArg(v, verb, wid) ==
  IF verb \in {"s", "v"} THEN padString(v, wid) ELSE badVerb(verb, v, wid)

\* The first index >= i of f that holds no flag byte (Len(f)+1 if none).
RECURSIVE SkipFlags(_, _)
SkipFlags(f, i) ==
  IF i <= Len(f) /\ f[i] \in FlagBytes THEN SkipFlags(f, i + 1) ELSE i

\* fmt.parsenum: [num, next] for the digits that start at i.
RECURSIVE parsenum(_, _, _)
parsenum(f, i, num) ==
  IF i <= Len(f) /\ IsDigit(f[i])
  THEN parsenum(f, i + 1, num * 10 + (Ord(f[i]) - Ord("0")))
  ELSE [num |-> num, next |-> i]

RECURSIVE extraArgs(_, _)
extraArgs(a, argNum) ==
  IF argNum > Len(a) THEN <<>>
  ELSE stringEquals \o a[argNum] \o
       (IF argNum < Len(a) THEN commaSpaceString ELSE <<>>) \o
       extraArgs(a, argNum + 1)

\* The check for extra arguments that ends doPrintf; argNum is the 1-based
\* index of the next unused operand.
finishPrintf(buf, a, argNum) ==
  IF argNum <= Len(a)
  THEN buf \o extraString \o extraArgs(a, argNum) \o <<")">>
  ELSE buf

\* The first index >= from of f that holds "%" (Len(f)+1 if none).
NextPercent(f, from) ==
  LET hits == {k \in from..Len(f) : f[k] = "%"}
  IN IF hits = {} THEN Len(f) + 1
     ELSE CHOOSE k \in hits : \A m \in hits : k <= m

RECURSIVE doPrintf(_, _, _, _, _)
doPrintf(f, a, i, argNum, buf) ==
  IF i > Len(f) THEN finishPrintf(buf, a, argNum)
  ELSE IF f[i] # "%"
  THEN \* the literal run up to the next "%" is written at once
       doPrintf(f, a, NextPercent(f, i), argNum,
                buf \o Slice(f, i, NextPercent(f, i) - 1))
  ELSE
    LET p == SkipFlags(f, i + 1)
    IN IF p <= Len(f) /\ IsLower(f[p]) /\ argNum <= Len(a)
       THEN \* fast path: simple verb, operand available
            doPrintf(f, a, p + 1, argNum + 1,
                     buf \o printArg(a[argNum], f[p], 0))
       ELSE
         LET w == parsenum(f, p, 0)
             q == w.next
         IN IF q > Len(f) THEN finishPrintf(buf \o noVerbString, a, argNum)
            ELSE IF f[q] = "%"
                 THEN doPrintf(f, a, q + 1, argNum, Append(buf, "%"))
            ELSE IF argNum > Len(a)
                 THEN doPrintf(f, a, q + 1, argNum,
                        buf \o percentBangString \o <<f[q]>> \o missingString)
            ELSE doPrintf(f, a, q + 1, argNum + 1,
                          buf \o printArg(a[argNum], f[q], w.num))

Sprintf(f, a) == doPrintf(f, a, 1, 1, <<>>)

(***************************************************************************)
(* Value maps (ValuedParameters): functions from name to value.  The Go    *)
(* slice is built from a map, so its names are distinct and its order is   *)
(* not observable through Value.                                           *)
(***************************************************************************)
EmptyMap == [n \in {} |-> <<>>]

HasValue(vp, name) == name \in DOMAIN vp

\* ValuedParameters.MissingSubset
MissingSubset(vp, pp) ==
  LET RECURSIVE go(_)
      go(rest) ==
        IF rest = <<>> THEN <<>>
        ELSE IF HasValue(vp, Head(rest).Name) THEN go(Tail(rest))
        ELSE <<Head(rest)>> \o go(Tail(rest))
  IN go(pp)

(***************************************************************************)
(* HydrateStringSafe                                                       *)
(***************************************************************************)
\* The operand appended for the span with the cleaned content.
SpanArg(content, vp) ==
  LET name == parseName(content)
  IN IF Len(name) = 0 THEN <<>>
     ELSE IF HasValue(vp, name) THEN vp[name]
     ELSE <<"{", "{">> \o content \o <<"}", "}">>

\* The scanning loop: [sb, args, i] when it ends.
RECURSIVE HydrateLoop(_, _, _, _, _, _)
HydrateLoop(s, vp, i, j, sb, args) ==
  IF j > Len(s) - 1 THEN [sb |-> sb, args |-> args, i |-> i]
  ELSE IF IsOpenAt(s, j)
  THEN LET sb2 == sb \o Slice(s, i, j - 1) \o <<"%", "s">>
           start == j + 2
           k == FindClose(s, start)
       IN IF k = 0
          THEN \* no closing "}}": both loops run out, i keeps its value
               [sb |-> sb2, args |-> args, i |-> i]
          ELSE HydrateLoop(s, vp, k + 2, k + 2, sb2,
                 Append(args, SpanArg(cleanString(Slice(s, start, k - 1)), vp)))
  ELSE HydrateLoop(s, vp, i, NextOpen(s, j + 1), sb, args)

HydrateStringSafe(s, vp) ==
  LET format(r) == Sprintf(r.sb \o Slice(s, r.i, Len(s)), r.args)
  IN format(HydrateLoop(s, vp, 1, 1, <<>>, <<>>))

\* HydrateString: [err, val, missing]
HydrateString(input, vp) ==
  LET check(missing) ==
        IF Len(missing) > 0
        THEN [err |-> "MissingParameters", val |-> <<>>,
              missing |-> Names(missing)]
        ELSE [err |-> "nil", val |-> HydrateStringSafe(input, vp),
              missing |-> <<>>]
      result(p) ==
        IF p.err # "nil" THEN [err |-> p.err, val |-> <<>>, missing |-> <<>>]
        ELSE check(MissingSubset(vp, p.val))
  IN result(ParseParameters(input))

(***************************************************************************)
(* JSON texts are sequences of tokens.  The texts of the model are built   *)
(* from the tokens below; json.Unmarshal into a map[string]string accepts  *)
(* the text null (the map stays nil) and an object whose member values are *)
(* all strings, a later member of a key replacing an earlier one.          *)
(***************************************************************************)
LBrace == [t |-> "{", s |-> <<>>]
RBrace == [t |-> "}", s |-> <<>>]
Colon == [t |-> ":", s |-> <<>>]
Comma == [t |-> ",", s |-> <<>>]
JNull == [t |-> "null", s |-> <<>>]
JNum == [t |-> "num", s |-> <<"1">>]
JStr(str) == [t |-> "str", s |-> str]

\* A map with one more entry (m[k] = v of Go).
Put(m, k, v) == [n \in DOMAIN m \cup {k} |-> IF n = k THEN v ELSE m[n]]

\* The members of an object, from token i on: [err, isNil, m].
RECURSIVE UnmarshalMembers(_, _, _, _)
UnmarshalMembers(toks, i, m, typeErr) ==
  IF i + 3 > Len(toks) THEN [err |-> "SyntaxError", isNil |-> FALSE, m |-> EmptyMap]
  ELSE IF toks[i].t # "str" \/ toks[i + 1] # Colon
          \/ toks[i + 2].t \notin {"str", "num"}
       THEN [err |-> "SyntaxError", isNil |-> FALSE, m |-> EmptyMap]
  ELSE LET bad == typeErr \/ toks[i + 2].t = "num"
           m2 == IF toks[i + 2].t = "str"
                 THEN Put(m, toks[i].s, toks[i + 2].s) ELSE m
       IN IF toks[i + 3] = RBrace
          THEN IF i + 3 # Len(toks)
               THEN [err |-> "SyntaxError", isNil |-> FALSE, m |-> EmptyMap]
               ELSE IF bad
               THEN [err |-> "UnmarshalTypeError", isNil |-> FALSE, m |-> EmptyMap]
               ELSE [err |-> "nil", isNil |-> FALSE, m |-> m2]
          ELSE IF toks[i + 3] = Comma
               THEN UnmarshalMembers(toks, i + 4, m2, bad)
               ELSE [err |-> "SyntaxError", isNil |-> FALSE, m |-> EmptyMap]

\* json.Unmarshal([]byte(text), &m) for var m map[string]string
Unmarshal(toks) ==
  IF toks = <<JNull>> THEN [err |-> "nil", isNil |-> TRUE, m |-> EmptyMap]
  ELSE IF toks = <<LBrace, RBrace>>
       THEN [err |-> "nil", isNil |-> FALSE, m |-> EmptyMap]
  ELSE IF Len(toks) >= 1 /\ toks[1] = LBrace
       THEN UnmarshalMembers(toks, 2, EmptyMap, FALSE)
  ELSE IF Len(toks) = 1 /\ toks[1].t \in {"str", "num"}
       THEN [err |-> "UnmarshalTypeError", isNil |-> FALSE, m |-> EmptyMap]
  ELSE [err |-> "SyntaxError", isNil |-> FALSE, m |-> EmptyMap]

\* The keys of a map in the order json.Marshal writes them (sorted).
RECURSIVE SortedKeys(_)
SortedKeys(keys) ==
  IF keys = {} THEN <<>>
  ELSE LET k == CHOOSE x \in keys : \A y \in keys : x = y \/ StrLess(x, y)
       IN <<k>> \o SortedKeys(keys \ {k})

RECURSIVE MarshalMembers(_, _)
MarshalMembers(m, keys) ==
  IF keys = <<>> THEN <<>>
  ELSE <<JStr(Head(keys)), Colon, JStr(m[Head(keys)])>> \o
       (IF Len(keys) > 1 THEN <<Comma>> ELSE <<>>) \o
       MarshalMembers(m, Tail(keys))

\* json.Marshal of a map[string]string: null for the nil map.
Marshal(isNil, m) ==
  IF isNil THEN <<JNull>>
  ELSE <<LBrace>> \o MarshalMembers(m, SortedKeys(DOMAIN m)) \o <<RBrace>>

\* ValuedParametersFromJSON: [err, val] with val a value map.
ValuedParametersFromJSON(jsonStr) ==
  LET result(r) ==
        IF r.err # "nil" THEN [err |-> r.err, val |-> EmptyMap]
        ELSE [err |-> "nil", val |-> r.m]
  IN result(Unmarshal(jsonStr))

\* validateJSON of the cp and run verbs.
validateJSON(jsonStr) == Unmarshal(jsonStr).err

HydrateStringFromJSON(cmd, jsonValueParams) ==
  LET js == IF jsonValueParams = <<>> THEN <<LBrace, RBrace>>
            ELSE jsonValueParams
      result(vp) ==
        IF vp.err # "nil" THEN Fail("ParsingValueParams")
        ELSE Ok(HydrateStringSafe(cmd, vp.val))
  IN result(ValuedParametersFromJSON(js))

(***************************************************************************)
(* The store.  A command row is [ID, Name, Command, Description,           *)
(* Parameters], a secret row [ID, Key, Value, Description]; the timestamp  *)
(* columns, which no operation of the core reads, are left out.            *)
(***************************************************************************)
VARIABLES commands, commandSeq, secrets, secretSeq, last, calls, input

\* The shell-config cache of package execute: the three package variables,
\* and for each goroutine that calls the package its position, the argument of
\* its SetShellConfig and the result of its last GetShellConfig with the path
\* that returned it.  shellEra records what happened since the cache was last
\* set or reset.
VARIABLES cachedShell, shellDetected, shellMutex, shellPc, shellArg, shellRet, shellEra

shellVars == <<cachedShell, shellDetected, shellMutex, shellPc, shellArg, shellRet, shellEra>>

\* One call of execute.Run: how many bytes the child has written to each of
\* its two streams and whether it has exited, the bytes in each pipe, the
\* scanner of each reader goroutine, the lines handed to the logger, the
\* counter of the WaitGroup and the position of Run.
VARIABLES childPos, childExited, pipe, scanner, logged, wg, runPc

execVars == <<childPos, childExited, pipe, scanner, logged, wg, runPc>>

vars == <<commands, commandSeq, secrets, secretSeq, last, calls, input, shellVars, execVars>>

Streams == {"stdout", "stderr"}
numWaitGroups == 2

InitExec ==
  /\ childPos = [st \in Streams |-> 0]
  /\ childExited = FALSE
  /\ pipe = [st \in Streams |-> <<>>]
  /\ scanner = [st \in Streams |-> [buf |-> <<>>, done |-> FALSE]]
  /\ logged = <<>>
  /\ wg = 0
  /\ runPc = "start"

ShellProcs == 1..NumProcs

\* ShellConfig{}, the result of detectShellPlatform, and the configurations
\* that a caller sets.
ZeroShell == "zero"
DetectedShell == "detected"
SetInputs == {"custom1", "custom2"}

Returned(config, path) == [config |-> config, path |-> path]

NewEra(change, value) ==
  [change |-> change, value |-> value, returned |-> {}, detections |-> 0]

InitShell ==
  /\ cachedShell = ZeroShell
  /\ shellDetected = FALSE
  /\ shellMutex = [readers |-> {}, writer |-> 0]
  /\ shellPc = [p \in ShellProcs |-> "idle"]
  /\ shellArg = [p \in ShellProcs |-> ZeroShell]
  /\ shellRet = [p \in ShellProcs |-> Returned(ZeroShell, "none")]
  /\ shellEra = NewEra("none", ZeroShell)

IsLetter(c) == IsLower(c) \/ IsUpper(c)

isValidNameChar(c) == IsLetter(c) \/ IsDigit(c) \/ c = "_"

\* validateNameLength that lets a name of nameMaxLength + 1 bytes pass.
validateNameLength_AllowsOneMore(name) ==
  IF Len(name) = 0 \/ Len(name) > nameMaxLength + 1 THEN "InvalidCommandName"
  ELSE "nil"

validateNameLength(name) ==
  IF Len(name) = 0 \/ Len(name) > nameMaxLength THEN "InvalidCommandName"
  ELSE "nil"

validateNameFirstChar(name) ==
  IF ~IsLetter(name[1]) THEN "InvalidCommandName" ELSE "nil"

validateNameChars(name) ==
  IF \E x \in 2..Len(name) : ~isValidNameChar(name[x])
  THEN "InvalidCommandName" ELSE "nil"

validateName(name) ==
  IF validateNameLength(name) # "nil" THEN "InvalidCommandName"
  ELSE IF validateNameFirstChar(name) # "nil" THEN "InvalidCommandName"
  ELSE validateNameChars(name)

\* Parameters.MarshalJSON followed by Parameters.UnmarshalJSON (ToParameters):
\* what a parameter list becomes by being written to and read from its column.
StoredParameters(pp) == SortByName(SortByName(pp))

\* queries.GetCommandByName / GetCommandByID: the set of matching rows (at
\* most one: name is UNIQUE, id the primary key).
RowsByName(cmds, name) == {c \in cmds : c.Name = name}
RowsByID(cmds, id) == {c \in cmds : c.ID = id}

GetCommandByName(cmds, name) ==
  IF RowsByName(cmds, name) = {} THEN Fail("CommandNotFound")
  ELSE Ok(CHOOSE c \in RowsByName(cmds, name) : TRUE)

GetCommand(cmds, id) ==
  IF RowsByID(cmds, id) = {} THEN Fail("CommandNotFound")
  ELSE Ok(CHOOSE c \in RowsByID(cmds, id) : TRUE)

\* The result of a store operation: the error, the table and the
\* AUTOINCREMENT counter it leaves.
StoreResult(e, cmds, seq) == [err |-> e, cmds |-> cmds, seq |-> seq]

\* Store.createCommand: INSERT ... RETURNING *
createCommand(cmds, seq, name, command, description, params) ==
  IF RowsByName(cmds, name) # {}
  THEN StoreResult("UniqueConstraint", cmds, seq)
  ELSE StoreResult("nil",
         cmds \cup {[ID |-> seq + 1, Name |-> name, Command |-> command,
                     Description |-> description,
                     Parameters |-> StoredParameters(params)]},
         seq + 1)

\* Store.updateCommand: UPDATE ... WHERE id = ? RETURNING *
updateCommand(cmds, seq, id, name, command, description, params) ==
  IF \E c \in cmds : c.ID # id /\ c.Name = name
  THEN StoreResult("UniqueConstraint", cmds, seq)
  ELSE IF RowsByID(cmds, id) = {} THEN StoreResult("NoRows", cmds, seq)
  ELSE StoreResult("nil",
         (cmds \ RowsByID(cmds, id)) \cup
           {[ID |-> id, Name |-> name, Command |-> command,
             Description |-> description,
             Parameters |-> StoredParameters(params)]},
         seq)

\* AddCommandOp without the lookup of the name: the insert meets the
\* UNIQUE constraint instead.
AddCommandOp_NoLookup(cmds, seq, name, command, description) ==
  LET create(c, p) ==
        IF p.err # "nil" THEN StoreResult(p.err, cmds, seq)
        ELSE createCommand(cmds, seq, name, c, description, p.val)
      parse(c) == create(c, ParseParameters(c))
  IN IF validateName(name) # "nil"
     THEN StoreResult("InvalidCommandName", cmds, seq)
     ELSE parse(ParseCommand(command))

AddCommandOp(cmds, seq, name, command, description) ==
  LET create(c, p) ==
        IF p.err # "nil" THEN StoreResult(p.err, cmds, seq)
        ELSE IF GetCommandByName(cmds, name).err = "nil"
             THEN StoreResult("AlreadyExists", cmds, seq)
        ELSE createCommand(cmds, seq, name, c, description, p.val)
      parse(c) == create(c, ParseParameters(c))
  IN IF validateName(name) # "nil"
     THEN StoreResult("InvalidCommandName", cmds, seq)
     ELSE parse(ParseCommand(command))

\* CopyCommandOp that reports a JSON error only after adding the copy of
\* the unhydrated source.
CopyCommandOp_AddsFirst(cmds, seq, srcName, destName, jsonValueParams) ==
  LET c == GetCommandByName(cmds, srcName)
      keep(cmdStr, added) == StoreResult(cmdStr.err, added.cmds, added.seq)
      add(cmdStr) ==
        IF cmdStr.err # "nil"
        THEN keep(cmdStr, AddCommandOp(cmds, seq, destName, c.val.Command,
                                       c.val.Description))
        ELSE AddCommandOp(cmds, seq, destName, cmdStr.val, c.val.Description)
  IN IF c.err # "nil" THEN StoreResult(c.err, cmds, seq)
     ELSE add(HydrateStringFromJSON(c.val.Command, jsonValueParams))

CopyCommandOp(cmds, seq, srcName, destName, jsonValueParams) ==
  LET c == GetCommandByName(cmds, srcName)
      add(cmdStr) ==
        IF cmdStr.err # "nil" THEN StoreResult(cmdStr.err, cmds, seq)
        ELSE AddCommandOp(cmds, seq, destName, cmdStr.val, c.val.Description)
  IN IF c.err # "nil" THEN StoreResult(c.err, cmds, seq)
     ELSE add(HydrateStringFromJSON(c.val.Command, jsonValueParams))

RemoveCommandOp(cmds, seq, name) ==
  IF GetCommandByName(cmds, name).err # "nil"
  THEN StoreResult("CommandNotFound", cmds, seq)
  ELSE StoreResult("nil", cmds \ RowsByName(cmds, name), seq)

\* UpdateCommandOp that takes the parameters from the template as it was
\* before the caller's values were substituted.
UpdateCommandOp_ParsesUnhydrated(cmds, seq, id, name, command, description, params, jsonValueParams) ==
  LET prev == GetCommand(cmds, id)
      update(c, priority) ==
        IF priority.err # "nil" THEN StoreResult(priority.err, cmds, seq)
        ELSE updateCommand(cmds, seq, id, name, c.val, description,
               ThreeWayMerge(priority.val, prev.val.Parameters, params))
      merge(c0, c) ==
        IF c.err # "nil" THEN StoreResult(c.err, cmds, seq)
        ELSE IF prev.err # "nil" THEN StoreResult(prev.err, cmds, seq)
        ELSE update(c, ParseParameters(c0))
      hydrate(c0) == merge(c0, HydrateStringFromJSON(c0, jsonValueParams))
  IN IF validateName(name) # "nil"
     THEN StoreResult("InvalidCommandName", cmds, seq)
     ELSE hydrate(ParseCommand(command))

UpdateCommandOp(cmds, seq, id, name, command, description, params, jsonValueParams) ==
  LET prev == GetCommand(cmds, id)
      update(c, priority) ==
        IF priority.err # "nil" THEN StoreResult(priority.err, cmds, seq)
        ELSE updateCommand(cmds, seq, id, name, c.val, description,
               ThreeWayMerge(priority.val, prev.val.Parameters, params))
      merge(c0, c) ==
        IF c.err # "nil" THEN StoreResult(c.err, cmds, seq)
        ELSE IF prev.err # "nil" THEN StoreResult(prev.err, cmds, seq)
        ELSE update(c, ParseParameters(c.val))
      hydrate(c0) == merge(c0, HydrateStringFromJSON(c0, jsonValueParams))
  IN IF validateName(name) # "nil"
     THEN StoreResult("InvalidCommandName", cmds, seq)
     ELSE hydrate(ParseCommand(command))

(***************************************************************************)
(* Secrets                                                                 *)
(***************************************************************************)
SecretsByKey(secs, key) == {x \in secs : x.Key = key}

\* queries.GetSecretByKey wrapped by Store.GetSecretByKey: sql.ErrNoRows
\* when there is no row.
GetSecretByKey(secs, key) ==
  IF SecretsByKey(secs, key) = {} THEN Fail("NoRows")
  ELSE Ok(CHOOSE x \in SecretsByKey(secs, key) : TRUE)

SecretResult(e, secs, seq) == [err |-> e, secs |-> secs, seq |-> seq]

AddSecretOp(secs, seq, key, value, description) ==
  IF validateName(key) # "nil" THEN SecretResult("InvalidCommandName", secs, seq)
  ELSE IF GetSecretByKey(secs, key).err = "nil"
       THEN SecretResult("AlreadyExists", secs, seq)
  ELSE SecretResult("nil",
         secs \cup {[ID |-> seq + 1, Key |-> key, Value |-> value,
                     Description |-> description]},
         seq + 1)

UpdateSecretOp(secs, seq, key, value, description) ==
  LET prev == GetSecretByKey(secs, key)
  IN IF validateName(key) # "nil"
     THEN SecretResult("InvalidCommandName", secs, seq)
     ELSE IF prev.err # "nil" THEN SecretResult("SecretNotFound", secs, seq)
     ELSE SecretResult("nil",
            (secs \ {prev.val}) \cup
              {[ID |-> prev.val.ID, Key |-> key, Value |-> value,
                Description |-> description]},
            seq)

RemoveSecretOp(secs, seq, key) ==
  LET secret == GetSecretByKey(secs, key)
  IN IF secret.err # "nil" THEN SecretResult(secret.err, secs, seq)
     ELSE SecretResult("nil", secs \ {secret.val}, seq)

(***************************************************************************)
(* The run verb (RunCmd.RunE) and execute.Run.                             *)
(***************************************************************************)
\* The loop over the parsed secrets: [err, isNil, m].  Assigning to an entry
\* of the nil map panics.
RECURSIVE FetchSecrets(_, _, _, _)
FetchSecrets(secs, parsedSecrets, isNil, paramMap) ==
  IF parsedSecrets = <<>> THEN [err |-> "nil", isNil |-> isNil, m |-> paramMap]
  ELSE LET secretValue == GetSecretByKey(secs, Head(parsedSecrets).Name)
       IN IF secretValue.err # "nil"
          THEN [err |-> secretValue.err, isNil |-> isNil, m |-> paramMap]
          ELSE IF isNil
          THEN [err |-> "panic", isNil |-> isNil, m |-> paramMap]
          ELSE FetchSecrets(secs, Tail(parsedSecrets), isNil,
                 Put(paramMap, <<bang>> \o Head(parsedSecrets).Name,
                     secretValue.val.Value))

\* The result of run: the error and the commands handed to the shell, in
\* order.  exitCode is the exit status of the child, chosen by the child.
RunResult(e, sp) == [err |-> e, spawned |-> sp]

\* RunOp that logs a failed secret lookup and goes on to hydrate and execute
\* with the values it has.
RunOp_IgnoresSecretError(cmds, secs, commandName, jsonValueParams, exitCode) ==
  LET cmd == GetCommandByName(cmds, commandName)
      execute(hydratedCmd) ==
        IF hydratedCmd.err # "nil" THEN RunResult(hydratedCmd.err, <<>>)
        ELSE IF exitCode # 0
             THEN RunResult("ExecutionFailed", <<hydratedCmd.val>>)
        ELSE RunResult("nil", <<hydratedCmd.val>>)
      hydrate(fetched) ==
        execute(HydrateStringFromJSON(cmd.val.Command,
                  Marshal(fetched.isNil, fetched.m)))
      fetch(parsed, paramMap) ==
        IF parsed.err # "nil" THEN RunResult(parsed.err, <<>>)
        ELSE IF paramMap.err # "nil" THEN RunResult(paramMap.err, <<>>)
        ELSE hydrate(FetchSecrets(secs, parsed.Secrets, paramMap.isNil,
                                  paramMap.m))
  IN IF cmd.err # "nil" THEN RunResult(cmd.err, <<>>)
     ELSE IF validateJSON(jsonValueParams) # "nil"
          THEN RunResult("InvalidJSON", <<>>)
     ELSE fetch(Parse(cmd.val.Command), Unmarshal(jsonValueParams))

RunOp(cmds, secs, commandName, jsonValueParams, exitCode) ==
  LET cmd == GetCommandByName(cmds, commandName)
      execute(hydratedCmd) ==
        IF hydratedCmd.err # "nil" THEN RunResult(hydratedCmd.err, <<>>)
        ELSE IF exitCode # 0
             THEN RunResult("ExecutionFailed", <<hydratedCmd.val>>)
        ELSE RunResult("nil", <<hydratedCmd.val>>)
      hydrate(fetched) ==
        IF fetched.err # "nil" THEN RunResult(fetched.err, <<>>)
        ELSE execute(HydrateStringFromJSON(cmd.val.Command,
                  Marshal(fetched.isNil, fetched.m)))
      fetch(parsed, paramMap) ==
        IF parsed.err # "nil" THEN RunResult(parsed.err, <<>>)
        ELSE IF paramMap.err # "nil" THEN RunResult(paramMap.err, <<>>)
        ELSE hydrate(FetchSecrets(secs, parsed.Secrets, paramMap.isNil,
                                  paramMap.m))
  IN IF cmd.err # "nil" THEN RunResult(cmd.err, <<>>)
     ELSE IF validateJSON(jsonValueParams) # "nil"
          THEN RunResult("InvalidJSON", <<>>)
     ELSE fetch(Parse(cmd.val.Command), Unmarshal(jsonValueParams))

(***************************************************************************)
(* Inputs of the model.                                                    *)
(***************************************************************************)
NameA == <<"a">>
NameB == <<"b">>
NameBad == <<"1">>
SecretKeys == {<<"k">>}
ExitCodes == {0, 1}

TplParam == <<"e", " ", "{", "{", "p", "|", "d", "}", "}">>
TplSecret == <<"c", " ", "{", "{", "!", "k", "}", "}", " ", "{", "{", "p", "}", "}">>
TplPercent == <<"d", " ", "%", "Y", " ", "{", "{", "p", "}", "}">>
TplSpaces == <<" ", "e", " ", " ", "{", "{", " ", "p", " ", "|", " ", "d", "d", " ", "}", "}">>
TplBadParam == <<"e", " ", "{", "{", "1", "p", "}", "}">>
TplBadSecret == <<"e", " ", "{", "{", "!", "1", "}", "}">>
TplEmptyHead == <<"e", " ", "{", "{", "}", "}", " ", "{", "{", "p", "}", "}">>
TplOpen == <<"e", " ", "{", "{", "p", "m">>
TplPlain == <<"l", "s">>

TemplateInputs ==
  {TplParam, TplSecret, TplPercent, TplSpaces, TplBadParam, TplBadSecret,
   TplEmptyHead, TplOpen, TplPlain}

JsonEmptyText == <<>>
JsonEmptyObject == <<LBrace, RBrace>>
JsonP == <<LBrace, JStr(<<"p">>), Colon, JStr(<<"v">>), RBrace>>
JsonPSpaces == <<LBrace, JStr(<<"p">>), Colon, JStr(<<" ", "v", " ", " ", "w">>), RBrace>>
JsonPAndSecret ==
  <<LBrace, JStr(<<"p">>), Colon, JStr(<<"v">>), Comma,
    JStr(<<"!", "k">>), Colon, JStr(<<"o">>), RBrace>>
JsonUnused == <<LBrace, JStr(<<"u">>), Colon, JStr(<<"x">>), RBrace>>
JsonNumber == <<LBrace, JStr(<<"p">>), Colon, JNum, RBrace>>
JsonBroken == <<LBrace, JStr(<<"p">>), Colon>>
JsonNull == <<JNull>>

ParamsNone == <<>>
ParamsLong == <<[Name |-> <<"p">>, Description |-> <<"l", "o", "n", "g">>]>>

\* The calls of the model: the arguments of each operation.
AddInputs ==
  [name : {NameA}, command : TemplateInputs, description : {<<"D">>}]
  \cup [name : {NameB}, command : {TplParam, TplPlain}, description : {<<>>}]
  \cup [name : {NameBad}, command : {TplPlain}, description : {<<>>}]

CopyInputs ==
  [srcName : {NameA}, destName : {NameB},
   jsonValueParams : {JsonEmptyText, JsonEmptyObject, JsonP, JsonPSpaces,
                      JsonUnused, JsonBroken}]
  \cup [srcName : {NameA, NameB}, destName : {NameA, NameBad},
        jsonValueParams : {JsonEmptyObject}]

RemoveInputs == {NameA, NameB}

UpdateInputs ==
  [id : {1}, name : {NameA}, command : TemplateInputs, description : {<<>>},
   params : {ParamsNone}, jsonValueParams : {JsonEmptyObject}]
  \cup [id : {1}, name : {NameA}, command : {TplParam, TplPercent},
        description : {<<>>}, params : {ParamsNone},
        jsonValueParams : {JsonEmptyText, JsonP, JsonPSpaces, JsonNumber}]
  \cup [id : {1, 2}, name : {NameB, NameBad}, command : {TplParam},
        description : {<<"D">>}, params : {ParamsLong},
        jsonValueParams : {JsonEmptyObject}]

RunInputs ==
  [commandName : {NameA},
   jsonValueParams : {JsonEmptyText, JsonEmptyObject, JsonP, JsonPAndSecret,
                      JsonBroken, JsonNull},
   exitCode : {0}]
  \cup [commandName : {NameA, NameB}, jsonValueParams : {JsonP},
        exitCode : ExitCodes]

NoInput == [t |-> <<>>, js |-> <<>>]

Call(op, e, a1, a2, js, out, sp) ==
  [op |-> op, err |-> e, a1 |-> a1, a2 |-> a2, js |-> js, out |-> out,
   spawned |-> sp]

(***************************************************************************)
(* The state machine of the store and the run verb: one action per call.   *)
(***************************************************************************)
Init ==
  /\ commands = {}
  /\ commandSeq = 0
  /\ secrets = {}
  /\ secretSeq = 0
  /\ last = Call("none", "nil", <<>>, <<>>, <<>>, <<>>, <<>>)
  /\ calls = 0
  /\ input = NoInput
  /\ InitShell
  /\ InitExec

AddCommand ==
  /\ calls < MaxCalls
  /\ \E a \in AddInputs :
       \E r \in {AddCommandOp(commands, commandSeq, a.name, a.command,
                             a.description)} :
          /\ commands' = r.cmds
          /\ commandSeq' = r.seq
          /\ last' = Call("AddCommand", r.err, a.name, a.command, <<>>, <<>>,
                          <<>>)
  /\ calls' = calls + 1
  /\ UNCHANGED <<secrets, secretSeq, input>>
  /\ UNCHANGED <<shellVars, execVars>>

CopyCommand ==
  /\ calls < MaxCalls
  /\ \E a \in CopyInputs :
       \E r \in {CopyCommandOp(commands, commandSeq, a.srcName, a.destName,
                              a.jsonValueParams)} :
          /\ commands' = r.cmds
          /\ commandSeq' = r.seq
          /\ last' = Call("CopyCommand", r.err, a.srcName, a.destName,
                          a.jsonValueParams, <<>>, <<>>)
  /\ calls' = calls + 1
  /\ UNCHANGED <<secrets, secretSeq, input>>
  /\ UNCHANGED <<shellVars, execVars>>

RemoveCommand ==
  /\ calls < MaxCalls
  /\ \E name \in RemoveInputs :
       \E r \in {RemoveCommandOp(commands, commandSeq, name)} :
          /\ commands' = r.cmds
          /\ commandSeq' = r.seq
          /\ last' = Call("RemoveCommand", r.err, name, <<>>, <<>>, <<>>, <<>>)
  /\ calls' = calls + 1
  /\ UNCHANGED <<secrets, secretSeq, input>>
  /\ UNCHANGED <<shellVars, execVars>>

UpdateCommand ==
  /\ calls < MaxCalls
  /\ \E a \in UpdateInputs :
       \E r \in {UpdateCommandOp(commands, commandSeq, a.id, a.name, a.command,
                                a.description, a.params, a.jsonValueParams)} :
          /\ commands' = r.cmds
          /\ commandSeq' = r.seq
          /\ last' = Call("UpdateCommand", r.err, a.name, <<>>, <<>>, <<>>,
                          <<>>)
  /\ calls' = calls + 1
  /\ UNCHANGED <<secrets, secretSeq, input>>
  /\ UNCHANGED <<shellVars, execVars>>

AddSecret ==
  /\ calls < MaxCalls
  /\ \E key \in SecretKeys, value \in {<<"S">>} :
       \E r \in {AddSecretOp(secrets, secretSeq, key, value, <<>>)} :
          /\ secrets' = r.secs
          /\ secretSeq' = r.seq
          /\ last' = Call("AddSecret", r.err, key, <<>>, <<>>, <<>>, <<>>)
  /\ calls' = calls + 1
  /\ UNCHANGED <<commands, commandSeq, input>>
  /\ UNCHANGED <<shellVars, execVars>>

UpdateSecret ==
  /\ calls < MaxCalls
  /\ \E key \in SecretKeys, value \in {<<"T">>} :
       \E r \in {UpdateSecretOp(secrets, secretSeq, key, value, <<>>)} :
          /\ secrets' = r.secs
          /\ secretSeq' = r.seq
          /\ last' = Call("UpdateSecret", r.err, key, <<>>, <<>>, <<>>, <<>>)
  /\ calls' = calls + 1
  /\ UNCHANGED <<commands, commandSeq, input>>
  /\ UNCHANGED <<shellVars, execVars>>

RemoveSecret ==
  /\ calls < MaxCalls
  /\ \E key \in SecretKeys :
       \E r \in {RemoveSecretOp(secrets, secretSeq, key)} :
          /\ secrets' = r.secs
          /\ secretSeq' = r.seq
          /\ last' = Call("RemoveSecret", r.err, key, <<>>, <<>>, <<>>, <<>>)
  /\ calls' = calls + 1
  /\ UNCHANGED <<commands, commandSeq, input>>
  /\ UNCHANGED <<shellVars, execVars>>

Run ==
  /\ calls < MaxCalls
  /\ \E a \in RunInputs :
       \E r \in {RunOp(commands, secrets, a.commandName, a.jsonValueParams,
                      a.exitCode)} :
          last' = Call("Run", r.err, a.commandName, <<>>, a.jsonValueParams,
                       <<>>, r.spawned)
  /\ calls' = calls + 1
  /\ UNCHANGED <<commands, commandSeq, secrets, secretSeq, input>>
  /\ UNCHANGED <<shellVars, execVars>>

Next ==
  \/ AddCommand
  \/ CopyCommand
  \/ RemoveCommand
  \/ UpdateCommand
  \/ AddSecret
  \/ UpdateSecret
  \/ RemoveSecret
  \/ Run

Spec == Init /\ [][Next]_vars

(***************************************************************************)
(* Vocabulary of the properties.                                           *)
(***************************************************************************)
\* The template with each terminated span whose name has a value replaced by
\* that value, and every other byte kept: the substitution the specification
\* describes, computed without the format machinery of the code.
RECURSIVE SubstituteFrom(_, _, _)
SubstituteFrom(t, vm, i) ==
  IF i > Len(t) THEN <<>>
  ELSE IF IsOpenAt(t, i) /\ FindClose(t, i + 2) # 0
  THEN LET k == FindClose(t, i + 2)
           name == parseName(Slice(t, i + 2, k - 1))
       IN (IF name \in DOMAIN vm THEN vm[name] ELSE Slice(t, i, k + 1))
          \o SubstituteFrom(t, vm, k + 2)
  ELSE <<t[i]>> \o SubstituteFrom(t, vm, i + 1)

SubstituteSpans(t, vm) == SubstituteFrom(t, vm, 1)

\* A step that is a call of the operation op.
IsCall(op) == calls' # calls /\ last'.op = op

\* The stored command a call l names with its first argument.
TargetOf(cmds, l) == GetCommandByName(cmds, l.a1)

\* The template of that command.
TemplateOf(cmds, l) == TargetOf(cmds, l).val.Command

\* The call l was a run whose lookup, JSON validation, template parse and
\* secret lookups all succeeded on the tables cmds and secs.
RunStepsSucceededOn(cmds, secs, l) ==
  /\ l.op = "Run"
  /\ TargetOf(cmds, l).err = "nil"
  /\ Unmarshal(l.js).err = "nil"
  /\ Parse(TemplateOf(cmds, l)).err = "nil"
  /\ \A x \in 1..Len(Parse(TemplateOf(cmds, l)).Secrets) :
       GetSecretByKey(secs, Parse(TemplateOf(cmds, l)).Secrets[x].Name).err
         = "nil"

\* The error run returns when one of these steps fails.
RunStepErrorOn(cmds, l) ==
  IF TargetOf(cmds, l).err # "nil" THEN "CommandNotFound"
  ELSE IF Unmarshal(l.js).err # "nil" THEN "InvalidJSON"
  ELSE IF Parse(TemplateOf(cmds, l)).err # "nil"
       THEN Parse(TemplateOf(cmds, l)).err
  ELSE "NoRows"

\* A run does not change the tables, so the tables of the state that follows
\* a run are those the run worked on.
RunStepsSucceeded == RunStepsSucceededOn(commands, secrets, last)

\* The parameter names of the run's template that the caller gave no value.
RunUncovered ==
  {n \in NameSet(Parse(TemplateOf(commands, last)).Parameters) :
     n \notin DOMAIN Unmarshal(last.js).m}

\* The value map of the run: the caller's values, overridden by the stored
\* values of the template's secrets under their "!"-prefixed names.
RunValueMap ==
  LET secs == Parse(TemplateOf(commands, last)).Secrets
      keys == {<<bang>> \o secs[x].Name : x \in 1..Len(secs)}
      caller == Unmarshal(last.js).m
  IN [n \in DOMAIN caller \cup keys |->
        IF n \in keys THEN GetSecretByKey(secrets, Tail(n)).val.Value
        ELSE caller[n]]

(***************************************************************************)
(* C1: when the caller JSON of a run (with the resolved secrets) does not  *)
(* cover every parameter of the command's template, run fails with         *)
(* MissingParameters and spawns no subprocess.                             *)
(***************************************************************************)
C1_MissingParametersFail ==
  (RunStepsSucceeded /\ RunUncovered # {})
    => (last.err = "MissingParameters" /\ last.spawned = <<>>)

(***************************************************************************)
(* C2: a run spawns the shell at most once, and only after the command     *)
(* lookup, the JSON validation, the template parse and every secret lookup *)
(* succeeded; when one of them fails run returns that error and spawns     *)
(* nothing; the command and secret tables are unchanged by a run.          *)
(***************************************************************************)
RunFailFastOn(cmds, secs, l) ==
  /\ Len(l.spawned) <= 1
  /\ (l.spawned # <<>> => RunStepsSucceededOn(cmds, secs, l))
  /\ (~RunStepsSucceededOn(cmds, secs, l) =>
        l.err = RunStepErrorOn(cmds, l) /\ l.spawned = <<>>)

C2_RunFailFast ==
  [][IsCall("Run") =>
       /\ RunFailFastOn(commands, secrets, last')
       /\ commands' = commands /\ commandSeq' = commandSeq
       /\ secrets' = secrets /\ secretSeq' = secretSeq]_vars

C2_Witness ==
  /\ last.op = "Run" /\ last.err = "NoRows" /\ last.spawned = <<>>
  /\ commands # {}

(***************************************************************************)
(* C3: for a stored command whose secrets all exist and whose parameters   *)
(* are all covered by the caller JSON, run spawns the shell exactly once   *)
(* with the template in which each secret span is replaced by the stored   *)
(* secret value and each parameter span by the caller's value; a caller    *)
(* entry keyed "!k" never overrides the stored secret.                     *)
(***************************************************************************)
C3_RunSubstitutes ==
  (RunStepsSucceeded /\ RunUncovered = {})
    => last.spawned = <<SubstituteSpans(TemplateOf(commands, last), RunValueMap)>>

(***************************************************************************)
(* C4: per command name the store is the state machine absent -> exists -> *)
(* absent.  AddCommand with a valid name and template succeeds iff no      *)
(* command has the name, and fails with AlreadyExists otherwise;           *)
(* RemoveCommand succeeds iff the name exists, and fails with              *)
(* CommandNotFound otherwise; a removed name can be added again.           *)
(***************************************************************************)
C4_NameStateMachine ==
  [][/\ (/\ IsCall("AddCommand")
         /\ validateName(last'.a1) = "nil"
         /\ ParseParameters(ParseCommand(last'.a2)).err = "nil") =>
          /\ (last'.err = "nil") <=> (RowsByName(commands, last'.a1) = {})
          /\ (RowsByName(commands, last'.a1) # {} =>
                last'.err = "AlreadyExists")
          /\ (last'.err = "nil" => RowsByName(commands', last'.a1) # {})
     /\ IsCall("RemoveCommand") =>
          /\ (last'.err = "nil") <=> (RowsByName(commands, last'.a1) # {})
          /\ (RowsByName(commands, last'.a1) = {} =>
                last'.err = "CommandNotFound")
          /\ (last'.err = "nil" => RowsByName(commands', last'.a1) = {})]_vars

\* A name is added again after a removal: two rows were created, one is left
\* and the last call added it.
C4_Witness ==
  /\ last.op = "AddCommand" /\ last.err = "nil"
  /\ commandSeq = 2 /\ Cardinality(commands) = 1

(***************************************************************************)
(* C5: in every reachable store state the parameter list of each stored    *)
(* command holds exactly the parameter names that ParseParameters extracts *)
(* from the stored template, each once.                                    *)
(***************************************************************************)
C5_ParametersMatchTemplate ==
  \A c \in commands :
    /\ ParseParameters(c.Command).err = "nil"
    /\ NameSet(c.Parameters) = NameSet(ParseParameters(c.Command).val)
    /\ Len(c.Parameters) = Cardinality(NameSet(c.Parameters))

\* An update that substituted a caller value has left a command with a
\* template without its parameter.
C5_Witness ==
  /\ last.op = "UpdateCommand" /\ last.err = "nil"
  /\ \E c \in commands : c.Parameters = <<>> /\ Contains(c.Command, "v")

(***************************************************************************)
(* C6: in every reachable store state each stored template is normalised,  *)
(* ParseCommand(template) = template, also after UpdateCommand and         *)
(* CopyCommand substituted caller values with surrounding or repeated      *)
(* whitespace.                                                             *)
(***************************************************************************)
C6_TemplatesNormalized ==
  \A c \in commands : ParseCommand(c.Command) = c.Command

(***************************************************************************)
(* C7: every stored template is parseable: brackets.Parse succeeds on it,  *)
(* every parameter and secret name in it satisfying the name rule.         *)
(***************************************************************************)
C7_TemplatesParse ==
  \A c \in commands : Parse(c.Command).err = "nil"

(***************************************************************************)
(* C8: an AddCommand, CopyCommand, UpdateCommand or RemoveCommand call     *)
(* that returns an error leaves the stored commands, with all their        *)
(* fields, as they were.                                                   *)
(***************************************************************************)
C8_FailedCallsChangeNothing ==
  [][(/\ calls' # calls
      /\ last'.op \in {"AddCommand", "CopyCommand", "UpdateCommand",
                       "RemoveCommand"}
      /\ last'.err # "nil") =>
       commands' = commands]_vars

\* An update of an existing row failed on its template.
C8_Witness ==
  /\ last.op = "UpdateCommand" /\ last.err = "StartsWithInvalidChar"
  /\ RowsByID(commands, 1) # {}

(***************************************************************************)
(* C9: a successful CopyCommand(src, dest, values) creates exactly one new *)
(* command named dest, whose template is the source template with every    *)
(* span whose name is a key of values replaced by the value and every      *)
(* other span preserved, whose parameters are those of the new template    *)
(* and whose description is the source's; the source is unchanged.         *)
(***************************************************************************)
C9_CopySubstitutes ==
  [][(IsCall("CopyCommand") /\ last'.err = "nil") =>
       LET src == GetCommandByName(commands, last'.a1).val
           vm == IF last'.js = <<>> THEN EmptyMap ELSE Unmarshal(last'.js).m
           new == commands' \ commands
       IN /\ Cardinality(new) = 1
          /\ \A d \in new :
               /\ d.Name = last'.a2
               /\ d.Command = SubstituteSpans(src.Command, vm)
               /\ NameSet(d.Parameters)
                    = NameSet(ParseParameters(d.Command).val)
               /\ d.Description = src.Description
          /\ commands \subseteq commands']_vars

(***************************************************************************)
(* The brackets functions on their own: the inputs are drawn in the        *)
(* initial state and one action applies each function to them.             *)
(***************************************************************************)
Pieces ==
  {<<"{", "{">>, <<"}", "}">>, <<"{">>, <<"}">>, <<"p">>, <<" ">>, <<"|">>,
   <<"!">>, <<"%">>, <<"Y">>}

\* The strings made of at most n pieces.
RECURSIVE PieceStrings(_)
PieceStrings(n) ==
  IF n = 0 THEN {<<>>}
  ELSE LET shorter == PieceStrings(n - 1)
       IN shorter \cup {str \o pc : str \in shorter, pc \in Pieces}

\* A literal "%s" in front of a span.
TplVerb == <<"{", "%", "s", "{", "{", "p", "}", "}">>

\* A "{{" that is never closed, with three bytes after it.
TplOpenLong == <<"a", " ", "{", "{", "b", "c", "d">>

\* Two parameters, the later one in the alphabet first.
TplTwoParams == <<"{", "{", "q", "}", "}", " ", "{", "{", "p", "}", "}">>

HydrateTemplates ==
  TemplateInputs \cup {TplVerb, TplOpenLong, TplTwoParams}
    \cup PieceStrings(MaxPieces)

\* A value that is itself the text of a span.
JsonPBraces ==
  <<LBrace, JStr(<<"p">>), Colon, JStr(<<"{", "{", "q", "}", "}">>), RBrace>>

HydrateJsonInputs ==
  {JsonEmptyText, JsonEmptyObject, JsonP, JsonPSpaces, JsonPBraces, JsonBroken}

\* The value map of the input, when its JSON text is an object of strings.
HasInputValues == Unmarshal(input.js).err = "nil"
InputValues == Unmarshal(input.js).m

\* What a call of a brackets function leaves to observe.
Result(op, e, out, more) == [op |-> op, err |-> e, out |-> out, more |-> more]

InitHydrate ==
  /\ commands = {}
  /\ commandSeq = 0
  /\ secrets = {}
  /\ secretSeq = 0
  /\ last = Call("none", "nil", <<>>, <<>>, <<>>, <<>>, <<>>)
  /\ calls = 0
  /\ input \in [t : HydrateTemplates, js : HydrateJsonInputs]
  /\ InitShell
  /\ InitExec

HydrateFromJSON ==
  /\ calls = 0
  /\ LET r == HydrateStringFromJSON(input.t, input.js)
     IN last' = Call("HydrateStringFromJSON", r.err, <<>>, <<>>, <<>>, r.val,
                     <<>>)
  /\ calls' = 1
  /\ UNCHANGED <<commands, commandSeq, secrets, secretSeq, input>>
  /\ UNCHANGED <<shellVars, execVars>>

HydrateSafe ==
  /\ calls = 0
  /\ HasInputValues
  /\ last' = Result("HydrateStringSafe", "nil",
                    HydrateStringSafe(input.t, InputValues), <<>>)
  /\ calls' = 1
  /\ UNCHANGED <<commands, commandSeq, secrets, secretSeq, input>>
  /\ UNCHANGED <<shellVars, execVars>>

HydrateStrict ==
  /\ calls = 0
  /\ HasInputValues
  /\ \E r \in {HydrateString(input.t, InputValues)} :
       last' = Result("HydrateString", r.err, r.val, r.missing)
  /\ calls' = 1
  /\ UNCHANGED <<commands, commandSeq, secrets, secretSeq, input>>
  /\ UNCHANGED <<shellVars, execVars>>

\* ParseCommand, and ParseCommand applied to its own result.
Normalize ==
  /\ calls = 0
  /\ last' = Result("ParseCommand", "nil", ParseCommand(input.t),
                    ParseCommand(ParseCommand(input.t)))
  /\ calls' = 1
  /\ UNCHANGED <<commands, commandSeq, secrets, secretSeq, input>>
  /\ UNCHANGED <<shellVars, execVars>>

NextHydrate ==
  \/ HydrateFromJSON
  \/ HydrateSafe
  \/ HydrateStrict
  \/ Normalize

SpecHydrate == InitHydrate /\ [][NextHydrate]_vars

(***************************************************************************)
(* C10: HydrateStringFromJSON(t, "") and HydrateStringFromJSON(t, "{}")    *)
(* return the template t unchanged, for every template t.                  *)
(***************************************************************************)
C10_EmptyJSONKeepsTemplate ==
  (/\ last.op = "HydrateStringFromJSON"
   /\ input.js \in {JsonEmptyText, JsonEmptyObject})
    => (last.err = "nil" /\ last.out = input.t)

(***************************************************************************)
(* C11: the output of HydrateStringSafe(t, v) contains no bracket span     *)
(* that was not already a span of t: every span of the output is one of    *)
(* the spans of t that v leaves unresolved, so the names parsed from the   *)
(* output are names parsed from t.                                         *)
(***************************************************************************)
\* The cleaned contents of the spans of s that have a name.
SpanContents(s) == {parseBrackets(s)[x] : x \in 1..Len(parseBrackets(s))}

SpanNames(s) == {parseName(c) : c \in SpanContents(s)}

C11_SafeAddsNoSpan ==
  last.op = "HydrateStringSafe"
    => /\ SpanNames(last.out) \subseteq SpanNames(input.t)
       /\ \A n \in SpanNames(last.out) : ~HasValue(InputValues, n)

(***************************************************************************)
(* C12: HydrateString(t, v) returns the substituted text and no error if   *)
(* and only if v has a value for every parameter name extracted from t;    *)
(* otherwise it returns the empty string and a MissingParameters error.    *)
(***************************************************************************)
\* The parameter names of the spans of t (the secrets are not parameters).
ParameterNames(t) == NameSet(parseParamOrSecret(t, FALSE))

Covered(t, vm) == \A n \in ParameterNames(t) : HasValue(vm, n)

C12_StrictIffCovered ==
  last.op = "HydrateString"
    => IF Covered(input.t, InputValues)
       THEN last.err = "nil" /\ last.out = SubstituteSpans(input.t, InputValues)
       ELSE last.err = "MissingParameters" /\ last.out = <<>>

RECURSIVE UnterminatedFrom(_, _)
UnterminatedFrom(s, i) ==
  IF NextOpen(s, i) > Len(s) THEN 0
  ELSE IF FindClose(s, NextOpen(s, i) + 2) = 0 THEN NextOpen(s, i)
  ELSE UnterminatedFrom(s, FindClose(s, NextOpen(s, i) + 2) + 2)

Remainder(s) == Slice(s, UnterminatedFrom(s, 1), Len(s))

IsSuffix(x, s) ==
  Len(x) <= Len(s) /\ Slice(s, Len(s) - Len(x) + 1, Len(s)) = x

C14_UnterminatedIsLiteral ==
  /\ (last.op = "ParseCommand" /\ UnterminatedFrom(TrimSpace(input.t), 1) # 0)
       => IsSuffix(CollapseSpaces(Remainder(TrimSpace(input.t))), last.out)
  /\ (last.op = "HydrateStringSafe" /\ UnterminatedFrom(input.t, 1) # 0)
       => IsSuffix(Remainder(input.t), last.out)

(***************************************************************************)
(* ParseParameters and ParseSecrets on their own.  The templates are runs  *)
(* of at most MaxSpans spans over a few names, so that a name occurs in    *)
(* several spans, and single spans over names at the edges of the name     *)
(* rule.                                                                   *)
(***************************************************************************)
SpanPieces ==
  {<<"{", "{", "p", "}", "}">>,
   <<"{", "{", "p", "|", "d", "d", "}", "}">>,
   <<"{", "{", " ", "p", " ", "|", "e", "e", " ", "}", "}">>,
   <<"{", "{", "q", "|", "x", "}", "}">>,
   <<"{", "{", "q", "}", "}">>,
   <<"{", "{", "!", "k", "}", "}">>,
   <<"{", "{", "!", "k", "|", "s", "}", "}">>}

\* The texts made of at most n spans, each followed by a space.
RECURSIVE SpanStrings(_)
SpanStrings(n) ==
  IF n = 0 THEN {<<>>}
  ELSE LET shorter == SpanStrings(n - 1)
       IN shorter \cup {str \o pc \o <<" ">> : str \in shorter, pc \in SpanPieces}

LongName(n) == [x \in 1..n |-> "a"]

NameInputs ==
  {<<>>, <<"p">>, <<"P", "_", "1">>, <<"_", "p">>, <<"1", "p">>, <<"p", " ", "q">>,
   <<"p", "%">>, <<"p", "-", "q">>, <<"1", " ", "%">>, <<" ">>,
   LongName(nameMaxLength), LongName(nameMaxLength + 1),
   LongName(characterLimit), LongName(characterLimit + 1)}

ParseTemplates ==
  SpanStrings(MaxSpans)
    \cup {<<"{", "{">> \o n \o <<"}", "}">> : n \in NameInputs}
    \cup {<<"{", "{", "!">> \o n \o <<"}", "}">> : n \in NameInputs}
    \cup {<<"{", "{", "p", "}", "}", "{", "{">> \o n \o <<"}", "}">> :
            n \in NameInputs}

InitParse ==
  /\ commands = {}
  /\ commandSeq = 0
  /\ secrets = {}
  /\ secretSeq = 0
  /\ last = Call("none", "nil", <<>>, <<>>, <<>>, <<>>, <<>>)
  /\ calls = 0
  /\ input \in [t : ParseTemplates, js : {JsonEmptyObject}]
  /\ InitShell
  /\ InitExec

ParseParams ==
  /\ calls = 0
  /\ \E r \in {ParseParameters(input.t)} :
       last' = Result("ParseParameters", r.err, r.val, <<>>)
  /\ calls' = 1
  /\ UNCHANGED <<commands, commandSeq, secrets, secretSeq, input>>
  /\ UNCHANGED <<shellVars, execVars>>

ParseSecs ==
  /\ calls = 0
  /\ \E r \in {ParseSecrets(input.t)} :
       last' = Result("ParseSecrets", r.err, r.val, <<>>)
  /\ calls' = 1
  /\ UNCHANGED <<commands, commandSeq, secrets, secretSeq, input>>
  /\ UNCHANGED <<shellVars, execVars>>

NextParse ==
  \/ ParseParams
  \/ ParseSecs

SpecParse == InitParse /\ [][NextParse]_vars

(***************************************************************************)
(* C15: ParseParameters and ParseSecrets return one descriptor per         *)
(* distinct name, in the order of the first appearance of each name; of    *)
(* the spans of one name the descriptor kept is the one whose trimmed      *)
(* inner content (head|tail) is longest, the earliest winning ties.        *)
(***************************************************************************)
\* Every terminated span of s with a name, in order: its cleaned content.
RECURSIVE AllSpansFrom(_, _)
AllSpansFrom(s, i) ==
  IF NextOpen(s, i) > Len(s) \/ FindClose(s, NextOpen(s, i) + 2) = 0 THEN <<>>
  ELSE LET o == NextOpen(s, i)
           k == FindClose(s, o + 2)
           content == cleanString(Slice(s, o + 2, k - 1))
       IN (IF parseName(content) = <<>> THEN <<>> ELSE <<content>>)
          \o AllSpansFrom(s, k + 2)

\* The spans of the parameters (~wantSecrets) or of the secrets.
SpansOfKind(s, wantSecrets) ==
  SelectSeq(AllSpansFrom(s, 1), LAMBDA c : (parseName(c)[1] = bang) = wantSecrets)

\* Of the spans ss, one per name in the order of first appearance: the
\* longest of the name, the earliest among the longest.
LongestPerName(ss) ==
  LET first == {x \in 1..Len(ss) :
                  \A y \in 1..(x - 1) : parseName(ss[y]) # parseName(ss[x])}
      nth(n) == CHOOSE x \in first : Cardinality({y \in first : y <= x}) = n
      best(x) == CHOOSE y \in 1..Len(ss) :
                   /\ parseName(ss[y]) = parseName(ss[x])
                   /\ \A z \in 1..Len(ss) :
                        parseName(ss[z]) = parseName(ss[x])
                          => \/ Len(ss[z]) < Len(ss[y])
                             \/ (Len(ss[z]) = Len(ss[y]) /\ y <= z)
  IN [n \in 1..Cardinality(first) |-> ss[best(nth(n))]]

\* The descriptor of a cleaned content: the name (without the "!" of a
\* secret) and the description.
DescriptorOf(c, isSecret) ==
  LET bar == PipeIndex(c)
      head == IF bar = 0 THEN c ELSE Slice(c, 1, bar - 1)
  IN [Name |-> IF isSecret THEN Tail(head) ELSE head,
      Description |-> IF bar = 0 THEN <<>> ELSE Slice(c, bar + 1, Len(c))]

ExpectedDescriptors(s, isSecret) ==
  LET kept == LongestPerName(SpansOfKind(s, isSecret))
  IN [x \in 1..Len(kept) |-> DescriptorOf(kept[x], isSecret)]

C15_LongestPerName ==
  /\ (last.op = "ParseParameters" /\ last.err = "nil")
       => last.out = ExpectedDescriptors(input.t, FALSE)
  /\ (last.op = "ParseSecrets" /\ last.err = "nil")
       => last.out = ExpectedDescriptors(input.t, TRUE)

\* The name p occurs three times, the longest content twice: the earlier of
\* the two is kept.
C15_Witness ==
  /\ last.op = "ParseParameters"
  /\ input.t = <<"{", "{", "p", "}", "}", " ",
                 "{", "{", " ", "p", " ", "|", "e", "e", " ", "}", "}", " ",
                 "{", "{", "p", "|", "d", "d", "}", "}", " ">>
  /\ last.out = <<[Name |-> <<"p">>, Description |-> <<"e", "e">>]>>

(***************************************************************************)
(* C16: ParseParameters / ParseSecrets accept a parameter or secret name   *)
(* if and only if it is 1 to 40 bytes long, its first byte is a letter and *)
(* every byte is a letter, a digit or an underscore; any other name makes  *)
(* the parse fail with the error kind of its defect and return no          *)
(* parameters.                                                             *)
(***************************************************************************)
NameRuleHolds(n) ==
  /\ Len(n) >= 1
  /\ Len(n) <= 40
  /\ IsLetter(n[1])
  /\ \A x \in 1..Len(n) : IsLetter(n[x]) \/ IsDigit(n[x]) \/ n[x] = "_"

\* The error kinds that name a defect of n.
DefectsOf(n) ==
  (IF Len(n) = 0 THEN {"NameEmpty"} ELSE {})
    \cup (IF Len(n) > 0 /\ ~IsLetter(n[1]) THEN {"StartsWithInvalidChar"} ELSE {})
    \cup (IF \E x \in 1..Len(n) : n[x] \in symbolSet
          THEN {"ContainsInvalidSymbols"} ELSE {})
    \cup (IF Len(n) > 40 THEN {"TooLong"} ELSE {})
    \cup (IF Contains(n, " ") THEN {"ContainsSpaces"} ELSE {})

NameRuleOutcome(names) ==
  IF \A x \in 1..Len(names) : NameRuleHolds(names[x])
  THEN last.err = "nil"
  ELSE /\ last.err # "nil"
       /\ last.out = <<>>
       /\ \E x \in 1..Len(names) :
            ~NameRuleHolds(names[x]) /\ last.err \in DefectsOf(names[x])

C16_NameRule ==
  /\ last.op = "ParseParameters"
       => NameRuleOutcome(Names(ExpectedDescriptors(input.t, FALSE)))
  /\ last.op = "ParseSecrets"
       => NameRuleOutcome(Names(ExpectedDescriptors(input.t, TRUE)))

(***************************************************************************)
(* The name rule of the store: one call of an operation that takes a name  *)
(* or a key, on a store that holds the command a and the secret a or does  *)
(* not.                                                                    *)
(***************************************************************************)
RowA ==
  [ID |-> 1, Name |-> NameA, Command |-> TplPlain, Description |-> <<>>,
   Parameters |-> <<>>]

RowB ==
  [ID |-> 2, Name |-> NameB, Command |-> TplPlain, Description |-> <<>>,
   Parameters |-> <<>>]

SecretA == [ID |-> 1, Key |-> NameA, Value |-> <<"S">>, Description |-> <<>>]

StoreNameInputs == NameInputs \cup {NameA, NameB}

InitNames ==
  /\ \E hasRow \in BOOLEAN, hasRowB \in BOOLEAN :
       /\ commands = (IF hasRow THEN {RowA} ELSE {})
                        \cup (IF hasRowB THEN {RowB} ELSE {})
       /\ commandSeq = (IF hasRowB THEN 2 ELSE IF hasRow THEN 1 ELSE 0)
  /\ \E hasSecret \in BOOLEAN :
       /\ secrets = (IF hasSecret THEN {SecretA} ELSE {})
       /\ secretSeq = (IF hasSecret THEN 1 ELSE 0)
  /\ last = Call("none", "nil", <<>>, <<>>, <<>>, <<>>, <<>>)
  /\ calls = 0
  /\ input \in [t : StoreNameInputs, js : {JsonEmptyObject, JsonBroken}]
  /\ InitShell
  /\ InitExec

NamedAdd ==
  /\ calls = 0
  /\ \E r \in {AddCommandOp(commands, commandSeq, input.t, TplPlain, <<>>)} :
       /\ commands' = r.cmds
       /\ commandSeq' = r.seq
       /\ last' = Call("AddCommand", r.err, input.t, <<>>, <<>>, <<>>, <<>>)
  /\ calls' = 1
  /\ UNCHANGED <<secrets, secretSeq, input>>
  /\ UNCHANGED <<shellVars, execVars>>

NamedCopy ==
  /\ calls = 0
  /\ \E src \in {NameA, NameB} :
       \E r \in {CopyCommandOp(commands, commandSeq, src, input.t, input.js)} :
         /\ commands' = r.cmds
         /\ commandSeq' = r.seq
         /\ last' = Call("CopyCommand", r.err, input.t, src, input.js, <<>>,
                         <<>>)
  /\ calls' = 1
  /\ UNCHANGED <<secrets, secretSeq, input>>
  /\ UNCHANGED <<shellVars, execVars>>

NamedUpdate ==
  /\ calls = 0
  /\ \E id \in {1, 2} :
       \E r \in {UpdateCommandOp(commands, commandSeq, id, input.t, TplPlain,
                                 <<>>, ParamsNone, input.js)} :
         /\ commands' = r.cmds
         /\ commandSeq' = r.seq
         /\ last' = Call("UpdateCommand", r.err, input.t, id, input.js,
                         <<>>, <<>>)
  /\ calls' = 1
  /\ UNCHANGED <<secrets, secretSeq, input>>
  /\ UNCHANGED <<shellVars, execVars>>

NamedAddSecret ==
  /\ calls = 0
  /\ \E r \in {AddSecretOp(secrets, secretSeq, input.t, <<"S">>, <<>>)} :
       /\ secrets' = r.secs
       /\ secretSeq' = r.seq
       /\ last' = Call("AddSecret", r.err, input.t, <<>>, <<>>, <<>>, <<>>)
  /\ calls' = 1
  /\ UNCHANGED <<commands, commandSeq, input>>
  /\ UNCHANGED <<shellVars, execVars>>

NamedUpdateSecret ==
  /\ calls = 0
  /\ \E r \in {UpdateSecretOp(secrets, secretSeq, input.t, <<"T">>, <<>>)} :
       /\ secrets' = r.secs
       /\ secretSeq' = r.seq
       /\ last' = Call("UpdateSecret", r.err, input.t, <<>>, <<>>, <<>>, <<>>)
  /\ calls' = 1
  /\ UNCHANGED <<commands, commandSeq, input>>
  /\ UNCHANGED <<shellVars, execVars>>

NextNames ==
  \/ NamedAdd
  \/ NamedCopy
  \/ NamedUpdate
  \/ NamedAddSecret
  \/ NamedUpdateSecret

SpecNames == InitNames /\ [][NextNames]_vars

(***************************************************************************)
(* C17: AddCommand, CopyCommand (destination name), UpdateCommand,         *)
(* AddSecret and UpdateSecret accept a name or key if and only if it is 1  *)
(* to 32 bytes long, its first byte is an ASCII letter and the others are  *)
(* ASCII letters, digits or underscores; otherwise they fail with          *)
(* InvalidCommandName before any lookup or write, whether or not a row     *)
(* with that name or id exists.                                            *)
(***************************************************************************)
StoreNameRuleHolds(n) ==
  /\ Len(n) >= 1
  /\ Len(n) <= 32
  /\ IsLetter(n[1])
  /\ \A x \in 2..Len(n) : IsLetter(n[x]) \/ IsDigit(n[x]) \/ n[x] = "_"

NamedOps ==
  {"AddCommand", "CopyCommand", "UpdateCommand", "AddSecret", "UpdateSecret"}

C17_NameRuleBeforeLookup ==
  [][(calls' # calls /\ last'.op \in NamedOps)
       => /\ (last'.err = "InvalidCommandName")
               <=> ~StoreNameRuleHolds(last'.a1)
          /\ last'.err = "InvalidCommandName"
               => (commands' = commands /\ secrets' = secrets)]_vars

\* As amended: CopyCommand reaches the rule only in its call of AddCommand,
\* after it has found the source and parsed the JSON values.
C17_NameRuleAfterSourceInCopy ==
  [][(calls' # calls /\ last'.op \in NamedOps)
       => /\ (last'.err = "InvalidCommandName")
               <=> /\ ~StoreNameRuleHolds(last'.a1)
                   /\ last'.op = "CopyCommand"
                        => /\ RowsByName(commands, last'.a2) # {}
                           /\ Unmarshal(last'.js).err = "nil"
          /\ last'.err = "InvalidCommandName"
               => (commands' = commands /\ secrets' = secrets)]_vars

\* A copy of an existing source to a name of 33 bytes was refused.
C17_Witness ==
  /\ last.op = "CopyCommand"
  /\ last.err = "InvalidCommandName"
  /\ Len(last.a1) = 33
  /\ last.a2 = NameA

(***************************************************************************)
(* Parameters.ThreeWayMerge on its own: the receiver and the two operands  *)
(* are pointers to lists, nil included.  The receiver is any list of up to *)
(* MaxParams entries, repeated names included; an operand is read through  *)
(* ToMap only, so the operands are the lists of distinct names.            *)
(***************************************************************************)
ParamNames == {NameA, NameB}
ParamDescriptions == {<<>>, <<"x">>, <<"y">>}
ParamEntries == [Name : ParamNames, Description : ParamDescriptions]

RECURSIVE ParamLists(_)
ParamLists(n) ==
  IF n = 0 THEN {<<>>}
  ELSE LET shorter == ParamLists(n - 1)
       IN shorter \cup
          {Append(pp, e) : pp \in {l \in shorter : Len(l) = n - 1},
                           e \in ParamEntries}

OperandLists ==
  {pp \in ParamLists(Cardinality(ParamNames)) :
     \A x \in 1..(Len(pp) - 1) : StrLess(pp[x].Name, pp[x + 1].Name)}

NilParams == [isNil |-> TRUE, val |-> <<>>]
PtrTo(pp) == [isNil |-> FALSE, val |-> pp]
Pointers(lists) == {NilParams} \cup {PtrTo(pp) : pp \in lists}

\* The list whose map ThreeWayMerge reads for an operand: none for nil.
OperandList(ptr) == IF ptr.isNil THEN <<>> ELSE ptr.val

InitMerge ==
  /\ commands = {}
  /\ commandSeq = 0
  /\ secrets = {}
  /\ secretSeq = 0
  /\ last = Result("none", "nil", NilParams, <<>>)
  /\ calls = 0
  /\ input \in [P : Pointers(ParamLists(MaxParams)),
                before : Pointers(OperandLists),
                updated : Pointers(OperandLists)]
  /\ InitShell
  /\ InitExec

Merge ==
  /\ calls = 0
  /\ last' = Result("ThreeWayMerge", "nil",
                    IF input.P.isNil THEN NilParams
                    ELSE PtrTo(ThreeWayMerge(input.P.val,
                                             OperandList(input.before),
                                             OperandList(input.updated))),
                    <<>>)
  /\ calls' = 1
  /\ UNCHANGED <<commands, commandSeq, secrets, secretSeq, input>>
  /\ UNCHANGED <<shellVars, execVars>>

NextMerge == Merge

SpecMerge == InitMerge /\ [][NextMerge]_vars

(***************************************************************************)
(* C18: ThreeWayMerge never changes the names of the receiver: whatever    *)
(* the receiver and the operands are, nil and empty included, every name   *)
(* occurs in the receiver after the merge as many times as before it, and  *)
(* a name that only an operand has is never added.                         *)
(***************************************************************************)
NameCount(pp, n) == Cardinality({x \in 1..Len(pp) : pp[x].Name = n})

C18_MergeKeepsNames ==
  last.op = "ThreeWayMerge"
    => /\ last.out.isNil = input.P.isNil
       /\ \A n \in ParamNames :
            NameCount(last.out.val, n) = NameCount(input.P.val, n)

\* A merge changed a description of a receiver that lacks a name which both
\* operands have.
C18_Witness ==
  /\ last.op = "ThreeWayMerge"
  /\ ~input.P.isNil
  /\ last.out.val # input.P.val
  /\ \E n \in ParamNames :
       /\ NameCount(input.P.val, n) = 0
       /\ n \in NameSet(OperandList(input.before))
       /\ n \in NameSet(OperandList(input.updated))

(***************************************************************************)
(* C19: for every name N of the receiver, with p, b, u its descriptions in *)
(* the receiver, before and updated, the merge leaves for N: when N is not *)
(* in before, u if u exists and is longer than p, else p; when N is in     *)
(* before and both p and u differ from b, u if it is longer than p, else p *)
(* (a tie keeps p); when only u differs from b, u; in every other case p.  *)
(* The receiver has one entry per name, as the lists that Parse returns.   *)
(***************************************************************************)
DistinctNames(pp) == \A n \in NameSet(pp) : NameCount(pp, n) = 1

MergedDescription(n, pp, beforeMap, updatedMap) ==
  LET p == ToMap(pp)[n]
      inB == n \in DOMAIN beforeMap
      inU == n \in DOMAIN updatedMap
  IN IF ~inB
     THEN IF inU /\ Len(updatedMap[n]) > Len(p) THEN updatedMap[n] ELSE p
     ELSE IF p # beforeMap[n] /\ inU /\ updatedMap[n] # beforeMap[n]
     THEN IF Len(updatedMap[n]) > Len(p) THEN updatedMap[n] ELSE p
     ELSE IF p = beforeMap[n] /\ inU /\ updatedMap[n] # beforeMap[n]
     THEN updatedMap[n]
     ELSE p

C19_MergeRule ==
  (last.op = "ThreeWayMerge" /\ ~input.P.isNil /\ DistinctNames(input.P.val))
    => \A n \in NameSet(input.P.val) :
         ToMap(last.out.val)[n] =
           MergedDescription(n, input.P.val,
                             ToMap(OperandList(input.before)),
                             ToMap(OperandList(input.updated)))

\* Both sides changed the description of a name with descriptions of equal
\* length, and another name took the updated description.
C19_Witness ==
  /\ last.op = "ThreeWayMerge"
  /\ ~input.P.isNil
  /\ DistinctNames(input.P.val)
  /\ NameSet(input.P.val) = ParamNames
  /\ LET b == ToMap(OperandList(input.before))
         u == ToMap(OperandList(input.updated))
         p == ToMap(input.P.val)
         r == ToMap(last.out.val)
     IN /\ DOMAIN b = ParamNames
        /\ DOMAIN u = ParamNames
        /\ p[NameA] # b[NameA]
        /\ u[NameA] # b[NameA]
        /\ u[NameA] # p[NameA]
        /\ Len(u[NameA]) = Len(p[NameA])
        /\ r[NameA] = p[NameA]
        /\ r[NameB] = u[NameB]
        /\ r[NameB] # p[NameB]

(***************************************************************************)
(* Parameters.Replace on its own, on the lists of distinct names in any    *)
(* order: ParseParameters returns its list in the order of first           *)
(* appearance.                                                             *)
(***************************************************************************)
InitReplace ==
  /\ commands = {}
  /\ commandSeq = 0
  /\ secrets = {}
  /\ secretSeq = 0
  /\ last = Result("none", "nil", <<>>, <<>>)
  /\ calls = 0
  /\ input \in [P : {pp \in ParamLists(MaxParams) : DistinctNames(pp)},
                name : ParamNames,
                description : ParamDescriptions]
  /\ InitShell
  /\ InitExec

ReplaceCall ==
  /\ calls = 0
  /\ last' = Result("Replace", "nil",
                    Replace(input.P, input.name, input.description), <<>>)
  /\ calls' = 1
  /\ UNCHANGED <<commands, commandSeq, secrets, secretSeq, input>>
  /\ UNCHANGED <<shellVars, execVars>>

NextReplace == ReplaceCall

SpecReplace == InitReplace /\ [][NextReplace]_vars

(***************************************************************************)
(* C20: after Replace(name, description) the list is sorted ascending by   *)
(* name, whether the call overwrote an entry or appended one, whatever the *)
(* order of the list was before the call.                                  *)
(***************************************************************************)
SortedByName(pp) ==
  \A x \in 1..(Len(pp) - 1) : ~StrLess(pp[x + 1].Name, pp[x].Name)

C20_ReplaceLeavesSorted == last.op = "Replace" => SortedByName(last.out)

(***************************************************************************)
(* Parameters.MarshalJSON, and two lists that grow from the empty list by  *)
(* calls of Replace: last.out is the one, last.more the other, and input   *)
(* keeps the calls made on each.                                           *)
(***************************************************************************)
LBracket == [t |-> "[", s |-> <<>>]
RBracket == [t |-> "]", s |-> <<>>]

\* json.Marshal of one Parameter: both fields are omitempty.
MarshalParameter(e) ==
  <<LBrace>> \o
  (IF e.Name = <<>> THEN <<>>
   ELSE <<JStr(<<"n", "a", "m", "e">>), Colon, JStr(e.Name)>>) \o
  (IF e.Name # <<>> /\ e.Description # <<>> THEN <<Comma>> ELSE <<>>) \o
  (IF e.Description = <<>> THEN <<>>
   ELSE <<JStr(<<"d", "e", "s", "c", "r", "i", "p", "t", "i", "o", "n">>),
          Colon, JStr(e.Description)>>) \o
  <<RBrace>>

RECURSIVE MarshalElements(_)
MarshalElements(pp) ==
  IF pp = <<>> THEN <<>>
  ELSE MarshalParameter(Head(pp)) \o
       (IF Len(pp) > 1 THEN <<Comma>> ELSE <<>>) \o
       MarshalElements(Tail(pp))

\* Parameters.MarshalJSON: the elements of a copy sorted by name.
ParametersMarshalJSON(pp) ==
  <<LBracket>> \o MarshalElements(SortByName(pp)) \o <<RBracket>>

UpsertNames == {NameA, NameB, <<"c">>}
UpsertDescriptions == {<<>>, <<"x">>}

InitUpsert ==
  /\ commands = {}
  /\ commandSeq = 0
  /\ secrets = {}
  /\ secretSeq = 0
  /\ last = Result("none", "nil", <<>>, <<>>)
  /\ calls = 0
  /\ input = [left |-> <<>>, right |-> <<>>]
  /\ InitShell
  /\ InitExec

UpsertLeft ==
  /\ calls < MaxUpserts
  /\ \E n \in UpsertNames, d \in UpsertDescriptions :
       /\ last' = Result("Replace", "nil", Replace(last.out, n, d), last.more)
       /\ input' = [input EXCEPT
                      !.left = Append(@, [Name |-> n, Description |-> d])]
  /\ calls' = calls + 1
  /\ UNCHANGED <<commands, commandSeq, secrets, secretSeq>>
  /\ UNCHANGED <<shellVars, execVars>>

UpsertRight ==
  /\ calls < MaxUpserts
  /\ \E n \in UpsertNames, d \in UpsertDescriptions :
       /\ last' = Result("Replace", "nil", last.out, Replace(last.more, n, d))
       /\ input' = [input EXCEPT
                      !.right = Append(@, [Name |-> n, Description |-> d])]
  /\ calls' = calls + 1
  /\ UNCHANGED <<commands, commandSeq, secrets, secretSeq>>
  /\ UNCHANGED <<shellVars, execVars>>

NextUpsert == UpsertLeft \/ UpsertRight

SpecUpsert == InitUpsert /\ [][NextUpsert]_vars

(***************************************************************************)
(* C21: two lists that grew from the empty list by calls of Replace and    *)
(* hold the same map from name to description have the same serialized     *)
(* JSON, whatever the order of the calls was.                              *)
(***************************************************************************)
C21_SerializedFormOfMap ==
  ToMap(last.out) = ToMap(last.more)
    => ParametersMarshalJSON(last.out) = ParametersMarshalJSON(last.more)

\* The same two names were upserted in opposite orders.
C21_Witness ==
  /\ Len(input.left) = 2
  /\ Len(input.right) = 2
  /\ input.left[1] = input.right[2]
  /\ input.left[2] = input.right[1]
  /\ StrLess(input.left[2].Name, input.left[1].Name)
  /\ input.left[1].Description # <<>>
  /\ ToMap(last.out) = ToMap(last.more)
  /\ ParametersMarshalJSON(last.out) = ParametersMarshalJSON(last.more)

(***************************************************************************)
(* C22: RemoveSecret(key) and UpdateSecret(key, ...) on a key that has no  *)
(* row both fail with SecretNotFound, and neither creates nor changes a    *)
(* secret row.                                                             *)
(***************************************************************************)
C22_AbsentKeyIsSecretNotFound ==
  [][(calls' # calls
      /\ last'.op \in {"RemoveSecret", "UpdateSecret"}
      /\ SecretsByKey(secrets, last'.a1) = {})
       => (last'.err = "SecretNotFound" /\ secrets' = secrets)]_vars

(***************************************************************************)
(* GetShellConfig, SetShellConfig and ResetShellConfig called by           *)
(* concurrent goroutines.  A step is what a goroutine does between two     *)
(* operations of shellMutex; calls counts the calls begun.                 *)
(***************************************************************************)
MutexFree == shellMutex.readers = {} /\ shellMutex.writer = 0

storeVars == <<commands, commandSeq, secrets, secretSeq, last, input>>

InitShellCalls ==
  /\ commands = {}
  /\ commandSeq = 0
  /\ secrets = {}
  /\ secretSeq = 0
  /\ last = Result("none", "nil", <<>>, <<>>)
  /\ calls = 0
  /\ input = <<>>
  /\ InitShell
  /\ InitExec

\* GetShellConfig: shellMutex.RLock()
GetRLock(p) ==
  /\ shellPc[p] = "idle"
  /\ calls < MaxShellOps
  /\ shellMutex.writer = 0
  /\ shellMutex' = [shellMutex EXCEPT !.readers = @ \cup {p}]
  /\ shellPc' = [shellPc EXCEPT ![p] = "get_rlocked"]
  /\ calls' = calls + 1
  /\ UNCHANGED <<storeVars, execVars, cachedShell, shellDetected, shellArg, shellRet,
                 shellEra>>

\* GetShellConfig, fast path: the test of shellDetected under the read lock,
\* then the return of the copy or the way to the slow path.
GetFast(p) ==
  /\ shellPc[p] = "get_rlocked"
  /\ shellMutex' = [shellMutex EXCEPT !.readers = @ \ {p}]
  /\ IF shellDetected
     THEN /\ shellRet' = [shellRet EXCEPT ![p] = Returned(cachedShell, "fast")]
          /\ shellEra' = [shellEra EXCEPT !.returned = @ \cup {cachedShell}]
          /\ shellPc' = [shellPc EXCEPT ![p] = "idle"]
     ELSE /\ shellPc' = [shellPc EXCEPT ![p] = "get_slow"]
          /\ UNCHANGED <<shellRet, shellEra>>
  /\ UNCHANGED <<storeVars, execVars, calls, cachedShell, shellDetected, shellArg>>

\* GetShellConfig, slow path: shellMutex.Lock()
GetLock(p) ==
  /\ shellPc[p] = "get_slow"
  /\ MutexFree
  /\ shellMutex' = [shellMutex EXCEPT !.writer = p]
  /\ shellPc' = [shellPc EXCEPT ![p] = "get_locked"]
  /\ UNCHANGED <<storeVars, execVars, calls, cachedShell, shellDetected, shellArg,
                 shellRet, shellEra>>

\* GetDetect that detects without testing shellDetected again.
GetDetect_NoDoubleCheck(p) ==
  /\ shellPc[p] = "get_locked"
  /\ cachedShell' = DetectedShell
  /\ shellDetected' = TRUE
  /\ shellRet' = [shellRet EXCEPT ![p] = Returned(DetectedShell, "slow")]
  /\ shellEra' = [shellEra EXCEPT !.detections = @ + 1,
                                  !.returned = @ \cup {DetectedShell}]
  /\ shellMutex' = [shellMutex EXCEPT !.writer = 0]
  /\ shellPc' = [shellPc EXCEPT ![p] = "idle"]
  /\ UNCHANGED <<storeVars, execVars, calls, shellArg>>

\* GetShellConfig, slow path under the write lock: the second test, the
\* detection, the return and the deferred Unlock.
GetDetect(p) ==
  /\ shellPc[p] = "get_locked"
  /\ IF ~shellDetected
     THEN /\ cachedShell' = DetectedShell
          /\ shellDetected' = TRUE
          /\ shellRet' = [shellRet EXCEPT ![p] = Returned(DetectedShell, "slow")]
          /\ shellEra' = [shellEra EXCEPT !.detections = @ + 1,
                                          !.returned = @ \cup {DetectedShell}]
     ELSE /\ shellRet' = [shellRet EXCEPT ![p] = Returned(cachedShell, "slow")]
          /\ shellEra' = [shellEra EXCEPT !.returned = @ \cup {cachedShell}]
          /\ UNCHANGED <<cachedShell, shellDetected>>
  /\ shellMutex' = [shellMutex EXCEPT !.writer = 0]
  /\ shellPc' = [shellPc EXCEPT ![p] = "idle"]
  /\ UNCHANGED <<storeVars, execVars, calls, shellArg>>

\* SetShellConfig(config): shellMutex.Lock()
SetLock(p) ==
  /\ shellPc[p] = "idle"
  /\ calls < MaxShellOps
  /\ MutexFree
  /\ \E config \in SetInputs : shellArg' = [shellArg EXCEPT ![p] = config]
  /\ shellMutex' = [shellMutex EXCEPT !.writer = p]
  /\ shellPc' = [shellPc EXCEPT ![p] = "set_locked"]
  /\ calls' = calls + 1
  /\ UNCHANGED <<storeVars, execVars, cachedShell, shellDetected, shellRet, shellEra>>

\* SetStore that leaves shellDetected as it is.
SetStore_LeavesDetectedFlag(p) ==
  /\ shellPc[p] = "set_locked"
  /\ cachedShell' = shellArg[p]
  /\ shellEra' = NewEra("set", shellArg[p])
  /\ shellMutex' = [shellMutex EXCEPT !.writer = 0]
  /\ shellPc' = [shellPc EXCEPT ![p] = "idle"]
  /\ UNCHANGED <<storeVars, execVars, calls, shellDetected, shellArg, shellRet>>

\* SetShellConfig: the two assignments and the deferred Unlock.
SetStore(p) ==
  /\ shellPc[p] = "set_locked"
  /\ cachedShell' = shellArg[p]
  /\ shellDetected' = TRUE
  /\ shellEra' = NewEra("set", shellArg[p])
  /\ shellMutex' = [shellMutex EXCEPT !.writer = 0]
  /\ shellPc' = [shellPc EXCEPT ![p] = "idle"]
  /\ UNCHANGED <<storeVars, execVars, calls, shellArg, shellRet>>

\* ResetShellConfig: shellMutex.Lock()
ResetLock(p) ==
  /\ shellPc[p] = "idle"
  /\ calls < MaxShellOps
  /\ MutexFree
  /\ shellMutex' = [shellMutex EXCEPT !.writer = p]
  /\ shellPc' = [shellPc EXCEPT ![p] = "reset_locked"]
  /\ calls' = calls + 1
  /\ UNCHANGED <<storeVars, execVars, cachedShell, shellDetected, shellArg, shellRet,
                 shellEra>>

\* ResetShellConfig: the two assignments and the deferred Unlock.
ResetStore(p) ==
  /\ shellPc[p] = "reset_locked"
  /\ cachedShell' = ZeroShell
  /\ shellDetected' = FALSE
  /\ shellEra' = NewEra("reset", ZeroShell)
  /\ shellMutex' = [shellMutex EXCEPT !.writer = 0]
  /\ shellPc' = [shellPc EXCEPT ![p] = "idle"]
  /\ UNCHANGED <<storeVars, execVars, calls, shellArg, shellRet>>

NextShell ==
  \/ \E p \in ShellProcs : GetRLock(p)
  \/ \E p \in ShellProcs : GetFast(p)
  \/ \E p \in ShellProcs : GetLock(p)
  \/ \E p \in ShellProcs : GetDetect(p)
  \/ \E p \in ShellProcs : SetLock(p)
  \/ \E p \in ShellProcs : SetStore(p)
  \/ \E p \in ShellProcs : ResetLock(p)
  \/ \E p \in ShellProcs : ResetStore(p)

SpecShell == InitShellCalls /\ [][NextShell]_vars

(***************************************************************************)
(* C23: between two changes of the cache by SetShellConfig or              *)
(* ResetShellConfig, however the calls of GetShellConfig interleave,       *)
(* detectShellPlatform runs at most once and every call returns the same   *)
(* configuration; a call that returns after ResetShellConfig returns what  *)
(* a detection made after the reset found.                                 *)
(***************************************************************************)
C23_DetectsOncePerEra ==
  /\ shellEra.detections <= 1
  /\ Cardinality(shellEra.returned) <= 1
  /\ (shellEra.change = "reset" /\ shellEra.returned # {})
       => (shellEra.detections = 1 /\ shellEra.returned = {DetectedShell})
  /\ (shellEra.change = "none" /\ shellEra.returned # {})
       => shellEra.detections = 1

\* After a reset one goroutine has detected and returned; another, which
\* had found the cache empty on its fast path, holds the write lock.
C23_Witness ==
  /\ shellEra.change = "reset"
  /\ shellEra.detections = 1
  /\ shellEra.returned = {DetectedShell}
  /\ \E p \in ShellProcs : shellPc[p] = "get_locked"

(***************************************************************************)
(* C29: once SetShellConfig(c) has returned, every GetShellConfig returns  *)
(* c until the next SetShellConfig or ResetShellConfig; a call that found  *)
(* the cache empty on its fast path before the set does not overwrite c    *)
(* with a detected configuration.                                          *)
(***************************************************************************)
C29_SetValueStays ==
  shellEra.change = "set"
    => /\ shellDetected
       /\ cachedShell = shellEra.value
       /\ shellEra.detections = 0
       /\ shellEra.returned \subseteq {shellEra.value}

\* A goroutine that went to the slow path before the set has returned the
\* value that was set.
C29_Witness ==
  /\ shellEra.change = "set"
  /\ shellEra.returned = {shellEra.value}
  /\ \E p \in ShellProcs :
       /\ shellPc[p] = "idle"
       /\ shellRet[p] = Returned(shellEra.value, "slow")

(***************************************************************************)
(* execute.Run and streamToLogger.  The child writes the bytes of          *)
(* input.stdout and input.stderr, one byte at a time, each stream into its *)
(* pipe of PipeCapacity bytes; a write into a full pipe blocks.  Each      *)
(* reader goroutine scans its pipe with a bufio.Scanner, which gives up    *)
(* with ErrTooLong when a line does not fit into MaxScanTokenSize bytes.   *)
(* The line feed is the byte "nl".                                         *)
(***************************************************************************)
LineFeed == "nl"

LongLine == [x \in 1..MaxScanTokenSize |-> "a"]

StdoutInputs ==
  {<<>>,
   <<"a", LineFeed>>,
   <<"a", LineFeed, "b", LineFeed>>,
   <<"a", LineFeed, "b">>,
   LongLine \o <<LineFeed>>,
   LongLine \o <<LineFeed, "b", LineFeed>>,
   LongLine \o <<LineFeed, "b", LineFeed, "c", LineFeed>>}

StderrInputs ==
  {<<>>,
   <<"x", LineFeed, "y", LineFeed>>}

\* logger.Info for the stdout goroutine, logger.Error for the stderr one.
LogFunc(st) == IF st = "stdout" THEN "Info" ELSE "Error"

InitExecute ==
  /\ commands = {}
  /\ commandSeq = 0
  /\ secrets = {}
  /\ secretSeq = 0
  /\ last = Result("none", "nil", <<>>, <<>>)
  /\ calls = 0
  /\ input \in [stdout : StdoutInputs, stderr : StderrInputs]
  /\ InitShell
  /\ InitExec

\* The child and the two reader goroutines exist.
Started == runPc \in {"wg_wait", "cmd_wait", "returned"}

\* cmd.Start succeeds; wg.Add(numWaitGroups); the two go statements.
RunStart ==
  /\ runPc = "start"
  /\ runPc' = "wg_wait"
  /\ wg' = numWaitGroups
  /\ UNCHANGED <<storeVars, calls, shellVars, childPos, childExited, pipe,
                 scanner, logged>>

\* StdoutPipe, StderrPipe or cmd.Start fails: Run returns the error and no
\* child runs.
RunStartFails ==
  /\ runPc = "start"
  /\ runPc' = "failed"
  /\ last' = Result("Run", "StartFailed", <<>>, <<>>)
  /\ UNCHANGED <<commands, commandSeq, secrets, secretSeq, input, calls,
                 shellVars, childPos, childExited, pipe, scanner, logged, wg>>

\* The child writes its next byte to a stream.
ChildWrite(st) ==
  /\ Started
  /\ ~childExited
  /\ childPos[st] < Len(input[st])
  /\ Len(pipe[st]) < PipeCapacity
  /\ pipe' = [pipe EXCEPT ![st] = Append(@, input[st][childPos[st] + 1])]
  /\ childPos' = [childPos EXCEPT ![st] = @ + 1]
  /\ UNCHANGED <<storeVars, calls, shellVars, childExited, scanner, logged,
                 wg, runPc>>

\* The child has written everything and exits, which closes its ends of the
\* pipes.
ChildExit ==
  /\ Started
  /\ ~childExited
  /\ \A st \in Streams : childPos[st] = Len(input[st])
  /\ childExited' = TRUE
  /\ UNCHANGED <<storeVars, calls, shellVars, childPos, pipe, scanner, logged,
                 wg, runPc>>

\* ScanByte that puts the line before the lines already logged.
ScanByte_LogsInFront(st) ==
  /\ Started
  /\ ~scanner[st].done
  /\ pipe[st] # <<>>
  /\ pipe' = [pipe EXCEPT ![st] = Tail(@)]
  /\ IF Head(pipe[st]) = LineFeed
     THEN /\ logged' = <<[level |-> LogFunc(st), line |-> scanner[st].buf]>>
                       \o logged
          /\ scanner' = [scanner EXCEPT ![st].buf = <<>>]
          /\ wg' = wg
     ELSE IF Len(scanner[st].buf) + 1 >= MaxScanTokenSize
     THEN /\ scanner' = [scanner EXCEPT ![st].done = TRUE]
          /\ wg' = wg - 1
          /\ logged' = logged
     ELSE /\ scanner' = [scanner EXCEPT ![st].buf = Append(@, Head(pipe[st]))]
          /\ UNCHANGED <<logged, wg>>
  /\ UNCHANGED <<storeVars, calls, shellVars, childPos, childExited, runPc>>

\* streamToLogger: the scanner takes the next byte of its pipe.  A line feed
\* ends the line, which goes to the log function.  A byte that fills the
\* buffer of a line without a line feed makes Scan return false with
\* ErrTooLong: the loop ends and the deferred wg.Done runs.
ScanByte(st) ==
  /\ Started
  /\ ~scanner[st].done
  /\ pipe[st] # <<>>
  /\ pipe' = [pipe EXCEPT ![st] = Tail(@)]
  /\ IF Head(pipe[st]) = LineFeed
     THEN /\ logged' = Append(logged, [level |-> LogFunc(st),
                                       line |-> scanner[st].buf])
          /\ scanner' = [scanner EXCEPT ![st].buf = <<>>]
          /\ wg' = wg
     ELSE IF Len(scanner[st].buf) + 1 >= MaxScanTokenSize
     THEN /\ scanner' = [scanner EXCEPT ![st].done = TRUE]
          /\ wg' = wg - 1
          /\ logged' = logged
     ELSE /\ scanner' = [scanner EXCEPT ![st].buf = Append(@, Head(pipe[st]))]
          /\ UNCHANGED <<logged, wg>>
  /\ UNCHANGED <<storeVars, calls, shellVars, childPos, childExited, runPc>>

\* streamToLogger at the end of the stream: the bytes after the last line
\* feed are the last line; the loop ends and the deferred wg.Done runs.
ScanEOF(st) ==
  /\ Started
  /\ ~scanner[st].done
  /\ pipe[st] = <<>>
  /\ childExited
  /\ logged' = IF scanner[st].buf = <<>> THEN logged
               ELSE Append(logged, [level |-> LogFunc(st),
                                    line |-> scanner[st].buf])
  /\ scanner' = [scanner EXCEPT ![st] = [buf |-> <<>>, done |-> TRUE]]
  /\ wg' = wg - 1
  /\ UNCHANGED <<storeVars, calls, shellVars, childPos, childExited, pipe,
                 runPc>>

\* WgWait that goes on as soon as one reader is done.
WgWait_AfterFirstDone ==
  /\ runPc = "wg_wait"
  /\ wg <= 1
  /\ runPc' = "cmd_wait"
  /\ UNCHANGED <<storeVars, calls, shellVars, childPos, childExited, pipe,
                 scanner, logged, wg>>

\* wg.Wait() returns.
WgWait ==
  /\ runPc = "wg_wait"
  /\ wg = 0
  /\ runPc' = "cmd_wait"
  /\ UNCHANGED <<storeVars, calls, shellVars, childPos, childExited, pipe,
                 scanner, logged, wg>>

\* cmd.Wait() returns once the child has exited, and Run returns.
CmdWait ==
  /\ runPc = "cmd_wait"
  /\ childExited
  /\ runPc' = "returned"
  /\ last' = Result("Run", "nil", <<>>, <<>>)
  /\ UNCHANGED <<commands, commandSeq, secrets, secretSeq, input, calls,
                 shellVars, childPos, childExited, pipe, scanner, logged, wg>>

NextExecute ==
  \/ RunStart
  \/ RunStartFails
  \/ \E st \in Streams : ChildWrite(st)
  \/ ChildExit
  \/ \E st \in Streams : ScanByte(st)
  \/ \E st \in Streams : ScanEOF(st)
  \/ WgWait
  \/ CmdWait

SpecExecute == InitExecute /\ [][NextExecute]_vars

(***************************************************************************)
(* C24: Run calls cmd.Wait only after both reader goroutines have          *)
(* finished, and the lines of one stream reach the logger in the order in  *)
(* which the child wrote them, those of stdout at Info and those of stderr *)
(* at Error.                                                               *)
(***************************************************************************)
\* The lines of a sequence of bytes: what stands before each line feed, and
\* what follows the last one when it is not empty.
RECURSIVE LinesFrom(_, _)
LinesFrom(bytes, line) ==
  IF bytes = <<>> THEN (IF line = <<>> THEN <<>> ELSE <<line>>)
  ELSE IF Head(bytes) = LineFeed
  THEN <<line>> \o LinesFrom(Tail(bytes), <<>>)
  ELSE LinesFrom(Tail(bytes), Append(line, Head(bytes)))

LinesOf(bytes) == LinesFrom(bytes, <<>>)

RECURSIVE LoggedAt(_, _)
LoggedAt(level, entries) ==
  IF entries = <<>> THEN <<>>
  ELSE (IF Head(entries).level = level THEN <<Head(entries).line>> ELSE <<>>)
       \o LoggedAt(level, Tail(entries))

IsPrefixOf(a, b) == Len(a) <= Len(b) /\ SubSeq(b, 1, Len(a)) = a

C24_BarrierAndStreamOrder ==
  /\ runPc \in {"cmd_wait", "returned"}
       => \A st \in Streams : scanner[st].done
  /\ IsPrefixOf(LoggedAt("Info", logged), LinesOf(input.stdout))
  /\ IsPrefixOf(LoggedAt("Error", logged), LinesOf(input.stderr))

\* Run has returned after two lines of each stream reached the logger, a line
\* of stderr between the two of stdout.
C24_Witness ==
  /\ runPc = "returned"
  /\ Len(logged) = 4
  /\ logged[1].level = "Info"
  /\ logged[2].level = "Error"
  /\ logged[3].level = "Info"
  /\ LoggedAt("Info", logged) = LinesOf(input.stdout)
  /\ LoggedAt("Error", logged) = LinesOf(input.stderr)

(***************************************************************************)
(* The same with the scheduling of the Go runtime and of the operating     *)
(* system: Run, the child and each reader goroutine take their next step   *)
(* when they can.                                                          *)
(***************************************************************************)
SpecExecuteFair ==
  /\ SpecExecute
  /\ WF_vars(RunStart \/ RunStartFails \/ WgWait \/ CmdWait)
  /\ WF_vars((\E st \in Streams : ChildWrite(st)) \/ ChildExit)
  /\ \A st \in Streams : WF_vars(ScanByte(st) \/ ScanEOF(st))

(***************************************************************************)
(* C28: once the child runs, Run returns in the end, and when it returns   *)
(* every line that the child wrote to stdout and to stderr has reached the *)
(* logger, however long the line is.                                       *)
(***************************************************************************)
EveryLineForwarded ==
  /\ LoggedAt("Info", logged) = LinesOf(input.stdout)
  /\ LoggedAt("Error", logged) = LinesOf(input.stderr)

C28_ReturnsWithEveryLine ==
  /\ Started ~> (runPc = "returned")
  /\ [](runPc = "returned" => EveryLineForwarded)

(***************************************************************************)
(* C25: UpdateCommand(id, name, ...) with a name that another stored       *)
(* command holds fails with AlreadyExists and leaves both commands as they *)
(* were; no two stored commands ever share a name.  The call is one whose  *)
(* other arguments are in order: the command id exists and the JSON        *)
(* values parse.                                                           *)
(***************************************************************************)
HeldByAnother(cmds, id, name) == \E c \in cmds : c.ID # id /\ c.Name = name

C25_RenameToHeldName ==
  [][(calls' # calls /\ last'.op = "UpdateCommand")
       => /\ (/\ HeldByAnother(commands, last'.a2, last'.a1)
              /\ RowsByID(commands, last'.a2) # {}
              /\ Unmarshal(last'.js).err = "nil")
               => (last'.err = "AlreadyExists" /\ commands' = commands)
          /\ \A c, d \in commands' : c.Name = d.Name => c = d]_vars

(***************************************************************************)
(* C26: when HydrateString fails for missing parameters, the error lists   *)
(* the parameter names of the template that have no value, each once, in   *)
(* ascending order, not in the order in which the template has them.       *)
(***************************************************************************)
MissingNames(t, vm) == {n \in ParameterNames(t) : ~HasValue(vm, n)}

C26_MissingNamesSorted ==
  (last.op = "HydrateString" /\ last.err = "MissingParameters")
    => last.more = SortedKeys(MissingNames(input.t, InputValues))

(***************************************************************************)
(* C27: hydration changes only the bracket spans: the output of            *)
(* HydrateStringSafe, and of a HydrateString that succeeds, is the text of *)
(* the template outside the spans, unchanged and in order, any "%" in it   *)
(* included, with each span replaced by its value, by the preserved span,  *)
(* or by the empty string when the head of the span is empty.  A preserved *)
(* span may keep its content as written or with its white space cleaned.   *)
(***************************************************************************)
RECURSIVE OnlySpansChangedFrom(_, _, _, _)
OnlySpansChangedFrom(t, vm, i, cleaned) ==
  IF i > Len(t) THEN <<>>
  ELSE IF IsOpenAt(t, i) /\ FindClose(t, i + 2) # 0
  THEN LET k == FindClose(t, i + 2)
           content == cleanString(Slice(t, i + 2, k - 1))
           name == parseName(content)
       IN (IF name = <<>> THEN <<>>
           ELSE IF name \in DOMAIN vm THEN vm[name]
           ELSE IF cleaned THEN <<"{", "{">> \o content \o <<"}", "}">>
           ELSE Slice(t, i, k + 1))
          \o OnlySpansChangedFrom(t, vm, k + 2, cleaned)
  ELSE <<t[i]>> \o OnlySpansChangedFrom(t, vm, i + 1, cleaned)

OnlySpansChanged(t, vm, out) ==
  \E cleaned \in BOOLEAN : out = OnlySpansChangedFrom(t, vm, 1, cleaned)

C27_OnlySpansChange ==
  /\ last.op = "HydrateStringSafe"
       => OnlySpansChanged(input.t, InputValues, last.out)
  /\ (last.op = "HydrateString" /\ last.err = "nil")
       => OnlySpansChanged(input.t, InputValues, last.out)

(***************************************************************************)
(* The edit verb (EditCmd.RunE) on a store that holds one command, which   *)
(* AddCommand created from the template input.t.                           *)
(***************************************************************************)
\* EditCmd.RunE: the lookup by name, the defaults of the two flags, and
\* UpdateCommand with the stored parameters as its params operand.
EditCommandOp(cmds, seq, commandName, editName, editDescription, commandCommand, jsonValueParams) ==
  LET existingCmd == GetCommandByName(cmds, commandName)
      newName == IF editName # <<>> THEN editName ELSE commandName
      newDescription(c) ==
        IF editDescription # <<>> THEN editDescription ELSE c.Description
  IN IF existingCmd.err # "nil" THEN StoreResult(existingCmd.err, cmds, seq)
     ELSE UpdateCommandOp(cmds, seq, existingCmd.val.ID, newName,
                          commandCommand, newDescription(existingCmd.val),
                          existingCmd.val.Parameters, jsonValueParams)

TplBare == <<"e", " ", "{", "{", "p", "}", "}">>
TplOther == <<"e", " ", "{", "{", "p", "|", "x", "}", "}">>

StoredTemplates == {TplParam, TplSpaces, TplTwoParams, TplPlain}

EditTemplates ==
  {TplParam, TplBare, TplOther, TplSpaces, TplTwoParams, TplPlain,
   TplBadParam}

InitEdit ==
  /\ input \in [t : StoredTemplates, js : {<<>>}]
  /\ \E r \in {AddCommandOp({}, 0, NameA, input.t, <<"D">>)} :
       /\ commands = r.cmds
       /\ commandSeq = r.seq
  /\ secrets = {}
  /\ secretSeq = 0
  /\ last = Call("none", "nil", <<>>, <<>>, <<>>, <<>>, <<>>)
  /\ calls = 0
  /\ InitShell
  /\ InitExec

Edit ==
  /\ calls < MaxEdits
  /\ \E commandName \in {NameA, NameB}, editName \in {<<>>, NameB},
        editDescription \in {<<>>, <<"E">>}, commandCommand \in EditTemplates,
        jsonValueParams \in {JsonEmptyText, JsonP, JsonBroken} :
       \E r \in {EditCommandOp(commands, commandSeq, commandName, editName,
                               editDescription, commandCommand,
                               jsonValueParams)} :
         /\ commands' = r.cmds
         /\ commandSeq' = r.seq
         /\ last' = Call("Edit", r.err, commandName, editName, jsonValueParams,
                         commandCommand, <<>>)
  /\ calls' = calls + 1
  /\ UNCHANGED <<secrets, secretSeq, input>>
  /\ UNCHANGED <<shellVars, execVars>>

NextEdit == Edit

SpecEdit == InitEdit /\ [][NextEdit]_vars

(***************************************************************************)
(* C30: through the edit verb the updated operand of UpdateCommand is the  *)
(* stored parameter list, the same as before, so after a successful edit   *)
(* the stored parameter list holds exactly the parameters parsed from the  *)
(* new, hydrated template: a stored description is never carried over     *)
(* when the new template gives another or no description for the name.     *)
(* The stored list is in the order of the names, in which the store keeps  *)
(* every parameter list.                                                   *)
(***************************************************************************)
C30_EditStoresParsedParameters ==
  (last.op = "Edit" /\ last.err = "nil")
    => \A c \in commands :
         /\ ParseParameters(c.Command).err = "nil"
         /\ c.Parameters = SortByName(ParseParameters(c.Command).val)

\* The stored command described its parameter p; the edit to a template with
\* a bare p has left p without a description.
C30_Witness ==
  /\ last.op = "Edit"
  /\ last.err = "nil"
  /\ calls = 1
  /\ input.t = TplParam
  /\ last.out = TplBare
  /\ \E c \in commands :
       c.Parameters = <<[Name |-> <<"p">>, Description |-> <<>>]>>

====
